---- MODULE Spec2Model ----
(***************************************************************************)
(* Project statistics engine of MultiSpec                                  *)
(* (src/shared/SProjectComputeStatistics.cpp).                             *)
(*                                                                         *)
(* Several state machines share this module:                               *)
(*   Spec / SpecControl : the field/class freshness protocol driven by     *)
(*                        UpdateStatsControl and the routines it calls;    *)
(*   SpecArea           : the class routines of that protocol alone        *)
(*                        (UpdateClassAreaStats, FinishClassStatsUpdate);  *)
(*   SpecCombine        : CombineFieldStatistics and                       *)
(*                        CombineFieldChannelStatistics after an update;   *)
(*   SpecChan           : one channel statistics vector and the routines   *)
(*                        that write it (AddToClassChannelStatistics, the  *)
(*                        per-pixel accumulation of the mask scan);        *)
(*   SpecMerge          : the merge of the channel vectors of the fields   *)
(*                        of a class (CombineFieldChannelStatistics);      *)
(*   SpecMatrix         : ResetZeroVariances and ResetForAllVariancesEqual *)
(*                        on one matrix;                                   *)
(*   SpecVariance       : ComputeVarianceVector;                           *)
(*   SpecStatsToUse     : SetClassCovarianceStatsToUse and                 *)
(*                        SetProjectCovarianceStatsToUse;                  *)
(*   SpecClassCov       : GetClassCovarianceMatrix and                     *)
(*                        GetTransformedClassCovarianceMatrix;             *)
(*   SpecEntry          : the entry points that take a class or field      *)
(*                        number, called with numbers in and out of range; *)
(*   SpecCov            : GetCommonCovariance;                             *)
(*   SpecMask           : UpdateProjectMaskStats called on its own;        *)
(*   SpecUpdate         : UpdateStatsControl as one call, mask scans that  *)
(*                        stop early included;                             *)
(*   SpecSetup          : UpdateStatsControl with a SetupStatsMemory that  *)
(*                        can fail;                                        *)
(*   SpecCorrelation    : ComputeCorrelationFromCovMatrix.                 *)
(*                                                                         *)
(* A channel sum of the update machine is kept symbolically: sum[f] is the *)
(* number of pixels of field f that have been added into the accumulator.  *)
(* The numeric sum is the image of this vector under a linear map, so a    *)
(* pixel counted twice or a field added twice stays visible.               *)
(***************************************************************************)
EXTENDS Integers, Sequences, FiniteSets, TLC

\* ------------------------------------------------------------------ bounds
NumClasses == 2
NumFields == 2
MaxCount == 3
MaxCalls == 2
NumChannels == 3
MaxSteps == 2
MaxNumberClasses == 3
MaxFeatures == 3

Classes == 0 .. (NumClasses - 1)
Fields == 0 .. (NumFields - 1)

\* ------------------------------------------------------- program constants
kUpdateProject == 2
kUpdateClass == 3
kUpdateField == 4

kTrainingType == "training"
kTestType == "test"
kRectangleType == "rectangle"
kMaskType == "mask"
kClusterType == "cluster"

kMeanStdDevOnly == 1
kMeanCovariance == 2

kOriginalStats == 1
kLeaveOneOutStats == 2
kEnhancedStats == 3
kMixedStats == 4

kComputedOptimum == "computed optimum"

VARIABLES
    gProjectInfoPtr,        \* the project: field and class records, statistics memory
    call,                   \* the routine that ran last, its arguments and return value
    chan,                   \* SpecChan: the channel statistics vectors
    cov                     \* SpecCov: the state GetCommonCovariance reads and writes

vars == <<gProjectInfoPtr, call, chan, cov>>

\* ------------------------------------------------------------------ helpers
\* Number of pixels the area of field f holds (gAreaDescription.numSamplesPerChan
\* after a complete scan; the number of raster pixels carrying f's mask value).
FieldPixels(f) == f + 1

ZeroSum == [f \in Fields |-> 0]

\* ZeroStatisticsMemory: the sums of one statistics set are set to zero.
ZeroStatisticsMemory(sum) == ZeroSum

\* out += in for the sums of one statistics set (AddToClassStatistics).
AddToClassStatistics(out, in) == [f \in Fields |-> out[f] + in[f]]

\* GetAreaStats: scans the area of field fieldNumber into sum.  returnCode 1:
\* every pixel was read; 0 (I/O failure) or -1 (canceled): the scan stopped
\* before the last line, the lines read so far stay accumulated.
GetAreaStats(sum, fieldNumber, returnCode) ==
    [sum EXCEPT ![fieldNumber] =
        @ + (IF returnCode = 1 THEN FieldPixels(fieldNumber)
                               ELSE FieldPixels(fieldNumber) - 1)]

\* gProjectInfoPtr->storageClass[classNumber]: classes are stored in order.
storageClass(classNumber) == classNumber

Ret(p, ret) == [p |-> p, ret |-> ret]

\* --------------------------------------------------- clearing the memory
ClearFieldStatisticsMemory(p, fieldNumber) ==
    IF fieldNumber >= NumFields THEN p
    ELSE LET fieldIdent == p.fieldIdentPtr[fieldNumber] IN
         IF fieldIdent.fieldType # kTrainingType THEN p
         ELSE IF fieldIdent.pointType = kClusterType THEN p
         ELSE IF ~p.keepClassStatsOnlyFlag /\ ~fieldIdent.statsUpToDate
              THEN [p EXCEPT !.fieldChanStatsPtr[fieldIdent.trainingStatsNumber] =
                                  ZeroStatisticsMemory(@)]
              ELSE p

RECURSIVE ClearChainFields(_, _)
ClearChainFields(p, fieldNumber) ==
    IF fieldNumber = -1 THEN p
    ELSE ClearChainFields(ClearFieldStatisticsMemory(p, fieldNumber),
                          p.fieldIdentPtr[fieldNumber].nextField)

RECURSIVE PixelsLoadedFrom(_, _)
PixelsLoadedFrom(p, fieldNumber) ==
    IF fieldNumber = -1 THEN 0
    ELSE LET fieldIdent == p.fieldIdentPtr[fieldNumber] IN
         (IF fieldIdent.fieldType = kTrainingType /\ fieldIdent.loadedIntoClassStats
              THEN fieldIdent.numberPixelsUsedForStats ELSE 0)
         + PixelsLoadedFrom(p, fieldIdent.nextField)

GetNumberOfPixelsLoadedInClass(p, classStorage) ==
    PixelsLoadedFrom(p, p.classNamesPtr[classStorage].firstFieldNumber)

ClearClassStatisticsMemory(p, classNumber) ==
    IF classNumber >= NumClasses THEN p
    ELSE LET classStorage == storageClass(classNumber)
             className == p.classNamesPtr[classStorage]
         IN IF className.numberOfTrainFields > 0 /\ ~className.statsUpToDate
            THEN LET p1 == [p EXCEPT !.classNamesPtr[classStorage].numberStatisticsPixels =
                                        GetNumberOfPixelsLoadedInClass(p, classStorage)]
                 IN IF p1.keepClassStatsOnlyFlag
                       /\ p1.classNamesPtr[classStorage].numberStatisticsPixels = 0
                    THEN [p1 EXCEPT !.classChanStatsPtr[classStorage] =
                                        ZeroStatisticsMemory(@)]
                    ELSE ClearChainFields(p1, className.firstFieldNumber)
            ELSE p

RECURSIVE ClearClassesFrom(_, _)
ClearClassesFrom(p, classIndex) ==
    IF classIndex >= NumClasses THEN p
    ELSE ClearClassesFrom(ClearClassStatisticsMemory(p, classIndex), classIndex + 1)

ClearProjectStatisticsMemory(p) == ClearClassesFrom(p, 0)

\* ------------------------------------------- rectangle and polygon fields
\* The assignments made after GetAreaStats returned 1.
FieldScanDone(p, fieldNumber) ==
    [p EXCEPT !.fieldIdentPtr[fieldNumber].numberPixelsUsedForStats = FieldPixels(fieldNumber),
              !.fieldIdentPtr[fieldNumber].statsUpToDate = ~p.keepClassStatsOnlyFlag]

\* scan is the value GetAreaStats returns for this field.
UpdateFieldAreaStats(p, fieldNumber, scan) ==
    IF fieldNumber >= NumFields THEN Ret(p, 0)
    ELSE LET fieldIdent == p.fieldIdentPtr[fieldNumber] IN
         IF fieldIdent.fieldType # kTrainingType THEN Ret(p, 0)
         ELSE IF fieldIdent.pointType = kClusterType THEN Ret(p, 0)
         ELSE IF fieldIdent.pointType = kMaskType THEN Ret(p, 1)
         ELSE LET fieldStatsIndex == fieldIdent.trainingStatsNumber
                  zeroed == IF p.keepClassStatsOnlyFlag
                                THEN ZeroStatisticsMemory(p.fieldChanStatsPtr[fieldStatsIndex])
                                ELSE p.fieldChanStatsPtr[fieldStatsIndex]
                  p1 == [p EXCEPT !.fieldChanStatsPtr[fieldStatsIndex] =
                                      GetAreaStats(zeroed, fieldNumber, scan),
                                  !.scanCode = scan]
              IN IF scan = 1 THEN Ret(FieldScanDone(p1, fieldNumber), scan)
                             ELSE Ret(p1, scan)

\* AddFieldToClass without the test of loadedIntoClassStats.
AddFieldToClassUnguarded(p, classStorage, fieldNumber) ==
    [p EXCEPT !.classChanStatsPtr[classStorage] =
                   IF p.keepClassStatsOnlyFlag
                       THEN AddToClassStatistics(@, p.fieldChanStatsPtr[0])
                       ELSE @,
              !.classNamesPtr[classStorage].numberStatisticsPixels =
                   @ + p.fieldIdentPtr[fieldNumber].numberPixelsUsedForStats,
              !.fieldIdentPtr[fieldNumber].loadedIntoClassStats = TRUE]

\* The statements guarded by "if (!fieldIdentPtr->loadedIntoClassStats)".
AddFieldToClass(p, classStorage, fieldNumber) ==
    IF ~p.fieldIdentPtr[fieldNumber].loadedIntoClassStats
    THEN [p EXCEPT !.classChanStatsPtr[classStorage] =
                        IF p.keepClassStatsOnlyFlag
                            THEN AddToClassStatistics(@, p.fieldChanStatsPtr[0])
                            ELSE @,
                   !.classNamesPtr[classStorage].numberStatisticsPixels =
                        @ + p.fieldIdentPtr[fieldNumber].numberPixelsUsedForStats,
                   !.fieldIdentPtr[fieldNumber].loadedIntoClassStats = TRUE]
    ELSE p

\* The value UpdateClassAreaStats returns when UpdateFieldAreaStats returned ret <= 0.
ClassAreaFailCode(ret) == 0

\* scan[f] is the value GetAreaStats returns for field f.
RECURSIVE UpdateClassFields(_, _, _, _)
UpdateClassFields(p, classStorage, fieldNumber, scan) ==
    IF fieldNumber = -1 THEN Ret(p, 1)
    ELSE LET fieldIdent == p.fieldIdentPtr[fieldNumber] IN
         IF fieldIdent.fieldType = kTrainingType /\ fieldIdent.pointType # kMaskType
         THEN LET r == IF ~fieldIdent.statsUpToDate
                           THEN UpdateFieldAreaStats(p, fieldNumber, scan[fieldNumber])
                           ELSE Ret(p, 1)
              IN IF r.ret <= 0 THEN Ret(r.p, ClassAreaFailCode(r.ret))
                 ELSE UpdateClassFields(AddFieldToClass(r.p, classStorage, fieldNumber),
                                        classStorage, fieldIdent.nextField, scan)
         ELSE UpdateClassFields(p, classStorage, fieldIdent.nextField, scan)

UpdateClassAreaStats(p, classNumber, scan) ==
    LET classStorage == storageClass(classNumber)
        className == p.classNamesPtr[classStorage]
    IN IF className.numberOfTrainFields > 0 /\ ~className.statsUpToDate
       THEN UpdateClassFields(p, classStorage, className.firstFieldNumber, scan)
       ELSE Ret(p, 1)

\* The value UpdateProjectAreaStats returns when UpdateClassAreaStats returned ret <= 0.
ProjectAreaFailCode(ret) == 0

RECURSIVE UpdateProjectClasses(_, _, _)
UpdateProjectClasses(p, classIndex, scan) ==
    IF classIndex >= NumClasses THEN Ret(p, 1)
    ELSE LET classStorage == storageClass(classIndex)
             r == IF ~p.classNamesPtr[classStorage].statsUpToDate
                      THEN UpdateClassAreaStats(p, classIndex, scan)
                      ELSE Ret(p, 1)
         IN IF r.ret <= 0 THEN Ret(r.p, ProjectAreaFailCode(r.ret))
            ELSE UpdateProjectClasses(r.p, classIndex + 1, scan)

UpdateProjectAreaStats(p, scan) ==
    IF NumClasses > 0 /\ ~p.statsUpToDate
    THEN UpdateProjectClasses(p, 0, scan)
    ELSE Ret(p, 1)

\* ------------------------------------------------- finishing an update
RECURSIVE AllTrainingFieldsLoaded(_, _)
AllTrainingFieldsLoaded(p, fieldNumber) ==
    IF fieldNumber = -1 THEN TRUE
    ELSE LET fieldIdent == p.fieldIdentPtr[fieldNumber] IN
         IF fieldIdent.fieldType = kTrainingType /\ ~fieldIdent.loadedIntoClassStats
         THEN FALSE
         ELSE AllTrainingFieldsLoaded(p, fieldIdent.nextField)

\* ClassUpToDateFlag without the walk of the field chain.
ClassUpToDateFlagNoWalk(p, classStorage) ==
    LET className == p.classNamesPtr[classStorage] IN
    className.numberOfTrainFields > 0 /\ ~className.statsUpToDate

\* The value of upToDateFlag when FinishClassStatsUpdate stores and returns it.
ClassUpToDateFlag(p, classStorage) ==
    LET className == p.classNamesPtr[classStorage] IN
    IF className.numberOfTrainFields > 0 /\ ~className.statsUpToDate
    THEN AllTrainingFieldsLoaded(p, className.firstFieldNumber)
    ELSE FALSE

FinishClassStatsUpdate(p, classNumber) ==
    IF classNumber >= NumClasses THEN Ret(p, FALSE)
    ELSE LET classStorage == storageClass(classNumber)
             upToDateFlag == ClassUpToDateFlag(p, classStorage)
         IN Ret([p EXCEPT !.classNamesPtr[classStorage].statsUpToDate = upToDateFlag],
                upToDateFlag)

RECURSIVE FinishClassesFrom(_, _, _)
FinishClassesFrom(p, classIndex, statsUpToDateFlag) ==
    IF classIndex >= NumClasses THEN [p EXCEPT !.statsUpToDate = statsUpToDateFlag]
    ELSE LET r == FinishClassStatsUpdate(p, classIndex)
         IN FinishClassesFrom(r.p, classIndex + 1, statsUpToDateFlag /\ r.ret)

FinishProjectStatsUpdate(p) == FinishClassesFrom(p, 0, TRUE)

FinishFieldMaskStatsUpdate(p, fieldNumber) ==
    IF fieldNumber >= NumFields THEN p
    ELSE LET fieldIdent == p.fieldIdentPtr[fieldNumber] IN
         IF fieldIdent.fieldType # kTrainingType \/ fieldIdent.pointType # kMaskType THEN p
         ELSE IF fieldIdent.statsUpToDate THEN p
         ELSE IF ~p.keepClassStatsOnlyFlag
              THEN [p EXCEPT !.fieldIdentPtr[fieldNumber].statsUpToDate = TRUE]
              ELSE p

\* The statements of the loop body of FinishClassMaskStatsUpdate that follow
\* the call of FinishFieldMaskStatsUpdate.
AddMaskFieldToClass(p, classStorage, fieldNumber) ==
    LET fieldIdent == p.fieldIdentPtr[fieldNumber] IN
    IF fieldIdent.pointType = kMaskType /\ fieldIdent.fieldType = kTrainingType
          /\ ~fieldIdent.loadedIntoClassStats
    THEN [p EXCEPT !.classNamesPtr[classStorage].numberStatisticsPixels =
                        @ + fieldIdent.numberPixelsUsedForStats,
                   !.fieldIdentPtr[fieldNumber].loadedIntoClassStats = TRUE]
    ELSE p

RECURSIVE FinishMaskFields(_, _, _)
FinishMaskFields(p, classStorage, fieldNumber) ==
    IF fieldNumber = -1 THEN p
    ELSE FinishMaskFields(
             AddMaskFieldToClass(FinishFieldMaskStatsUpdate(p, fieldNumber),
                                 classStorage, fieldNumber),
             classStorage, p.fieldIdentPtr[fieldNumber].nextField)

FinishClassMaskStatsUpdate(p, classNumber) ==
    IF classNumber >= NumClasses THEN p
    ELSE LET classStorage == storageClass(classNumber)
             className == p.classNamesPtr[classStorage]
         IN IF className.numberOfTrainFields > 0 /\ ~className.statsUpToDate
            THEN FinishMaskFields(p, classStorage, className.firstFieldNumber)
            ELSE p

RECURSIVE FinishMaskClassesFrom(_, _)
FinishMaskClassesFrom(p, classIndex) ==
    IF classIndex >= NumClasses THEN p
    ELSE FinishMaskClassesFrom(FinishClassMaskStatsUpdate(p, classIndex), classIndex + 1)

FinishProjectMaskStatsUpdate(p) == FinishMaskClassesFrom(p, 0)

\* ------------------------------------ combining field statistics of a class
\* out = [sum, merged]: the output sums and the fields added so far, in order.
\* AddToClassChannelStatistics overwrites the output on the first field
\* (initializeFlag TRUE) and adds on the following ones.
RECURSIVE CombineFieldChannelLoop(_, _, _, _)
CombineFieldChannelLoop(p, fieldNumber, out, initializeFlag) ==
    IF fieldNumber = -1 THEN out
    ELSE LET fieldIdent == p.fieldIdentPtr[fieldNumber] IN
         IF fieldIdent.fieldType = kTrainingType /\ fieldIdent.statsUpToDate
         THEN LET fieldChan == p.fieldChanStatsPtr[fieldIdent.trainingStatsNumber] IN
              CombineFieldChannelLoop(p, fieldIdent.nextField,
                  [sum |-> IF initializeFlag THEN fieldChan
                                             ELSE AddToClassStatistics(out.sum, fieldChan),
                   merged |-> Append(out.merged, fieldNumber)],
                  FALSE)
         ELSE CombineFieldChannelLoop(p, fieldIdent.nextField, out, initializeFlag)

CombineFieldChannelStatistics(p, classChannelStats, classNumber) ==
    CombineFieldChannelLoop(p, p.classNamesPtr[storageClass(classNumber)].firstFieldNumber,
                            [sum |-> classChannelStats, merged |-> <<>>], TRUE)

\* CombineFieldTest with the pointType test that would leave mask fields out.
CombineFieldTestNoMask(fieldIdent) ==
    /\ fieldIdent.fieldType = kTrainingType
    /\ fieldIdent.statsUpToDate
    /\ fieldIdent.pointType # kMaskType

\* The two tests a field of the chain has to pass to be added.
CombineFieldTest(fieldIdent) ==
    fieldIdent.fieldType = kTrainingType /\ fieldIdent.statsUpToDate

RECURSIVE CombineFieldLoop(_, _, _)
CombineFieldLoop(p, fieldNumber, out) ==
    IF fieldNumber = -1 THEN out
    ELSE LET fieldIdent == p.fieldIdentPtr[fieldNumber] IN
         CombineFieldLoop(p, fieldIdent.nextField,
             IF CombineFieldTest(fieldIdent)
             THEN [sum |-> AddToClassStatistics(
                               out.sum, p.fieldChanStatsPtr[fieldIdent.trainingStatsNumber]),
                   merged |-> Append(out.merged, fieldNumber)]
             ELSE out)

CombineFieldStatistics(p, outputChannelStats, classNumber) ==
    CombineFieldLoop(p, p.classNamesPtr[storageClass(classNumber)].firstFieldNumber,
                     [sum |-> outputChannelStats, merged |-> <<>>])

\* ------------------------------------------------------------ mask fields
RECURSIVE ClassMaskFieldsUpToDate(_, _)
ClassMaskFieldsUpToDate(p, fieldNumber) ==
    IF fieldNumber = -1 THEN TRUE
    ELSE LET fieldIdent == p.fieldIdentPtr[fieldNumber] IN
         IF fieldIdent.fieldType = kTrainingType /\ fieldIdent.pointType = kMaskType
               /\ ~fieldIdent.statsUpToDate
         THEN FALSE
         ELSE ClassMaskFieldsUpToDate(p, fieldIdent.nextField)

CheckIfClassMaskStatsUpToDate(p, classNumber) ==
    LET classStorage == storageClass(classNumber)
        className == p.classNamesPtr[classStorage]
    IN IF className.numberOfTrainFields > 0
       THEN ClassMaskFieldsUpToDate(p, className.firstFieldNumber)
       ELSE TRUE

CheckIfProjectMaskStatsUpToDate(p) ==
    \A classIndex \in Classes : CheckIfClassMaskStatsUpToDate(p, classIndex)

\* classNumber and fieldNumber are UInt32 parameters: the caller's -1 arrives
\* as 4294967295, which is no field number.
CheckIfMaskStatsUpToDate(p, statsUpdateCode, classNumber, fieldNumber) ==
    CASE statsUpdateCode = kUpdateProject -> CheckIfProjectMaskStatsUpToDate(p)
      [] statsUpdateCode = kUpdateClass -> CheckIfClassMaskStatsUpToDate(p, classNumber)
      [] statsUpdateCode = kUpdateField ->
            IF fieldNumber >= 0 /\ fieldNumber < NumFields
            THEN ~(p.fieldIdentPtr[fieldNumber].pointType = kMaskType
                      /\ ~p.fieldIdentPtr[fieldNumber].loadedIntoClassStats)
            ELSE TRUE
      [] OTHER -> TRUE

\* The training mask raster, one entry per pixel with a mask value, in scan
\* order; the entry is the field maskValueToFieldPtr gives for the value.
RECURSIVE MaskRasterFrom(_, _)
MaskRasterFrom(p, fieldNumber) ==
    IF fieldNumber >= NumFields THEN <<>>
    ELSE (IF p.fieldIdentPtr[fieldNumber].pointType = kMaskType
               /\ p.fieldIdentPtr[fieldNumber].fieldType = kTrainingType
          THEN [i \in 1 .. FieldPixels(fieldNumber) |-> fieldNumber]
          ELSE <<>>) \o MaskRasterFrom(p, fieldNumber + 1)

MaskRaster(p) == MaskRasterFrom(p, 0)

usePixelFlag(p, statsUpdateCode, requestedClassNumber, requestedFieldNumber, fieldNumber) ==
    LET classStorage == p.fieldIdentPtr[fieldNumber].classStorage
        classNumber == classStorage
    IN /\ \/ statsUpdateCode = kUpdateProject
          \/ classNumber = requestedClassNumber
          \/ fieldNumber = requestedFieldNumber
       /\ ~p.fieldIdentPtr[fieldNumber].loadedIntoClassStats

\* One pixel of the raster: the per-channel accumulation and the pixel count.
AccumulateMaskPixel(p, fieldNumber) ==
    LET classStorage == p.fieldIdentPtr[fieldNumber].classStorage
        p1 == IF p.keepClassStatsOnlyFlag
                 THEN [p EXCEPT !.classChanStatsPtr[classStorage][fieldNumber] = @ + 1]
                 ELSE [p EXCEPT !.fieldChanStatsPtr
                                     [p.fieldIdentPtr[fieldNumber].trainingStatsNumber]
                                     [fieldNumber] = @ + 1]
    IN [p1 EXCEPT !.fieldIdentPtr[fieldNumber].numberPixelsUsedForStats = @ + 1]

\* The scan loop over the first stopAfter pixels of the raster.
RECURSIVE ScanMaskPixels(_, _, _, _, _, _, _)
ScanMaskPixels(p, statsUpdateCode, requestedClassNumber, requestedFieldNumber, raster, index, stopAfter) ==
    IF index > stopAfter THEN p
    ELSE ScanMaskPixels(
             IF usePixelFlag(p, statsUpdateCode, requestedClassNumber,
                             requestedFieldNumber, raster[index])
                 THEN AccumulateMaskPixel(p, raster[index])
                 ELSE p,
             statsUpdateCode, requestedClassNumber, requestedFieldNumber,
             raster, index + 1, stopAfter)

\* The switch that follows a complete scan.
FinishMaskStatsUpdate(p, statsUpdateCode, requestedClassNumber, requestedFieldNumber) ==
    CASE statsUpdateCode = kUpdateProject -> FinishProjectMaskStatsUpdate(p)
      [] statsUpdateCode = kUpdateClass -> FinishClassMaskStatsUpdate(p, requestedClassNumber)
      [] statsUpdateCode = kUpdateField -> FinishClassMaskStatsUpdate(p, requestedFieldNumber)
      [] OTHER -> p

\* mask = [code, stopAfter]: code 1, the whole raster is walked; code 0, reading
\* the line of pixel stopAfter+1 fails; code -1, the user cancels after pixel
\* stopAfter.
UpdateProjectMaskStats(p, statsUpdateCode, requestedClassNumber, requestedFieldNumber, mask) ==
    IF ~p.maskHandle THEN Ret(p, 1)
    ELSE IF NumClasses <= 0 \/ p.statsUpToDate THEN Ret(p, 1)
    ELSE IF CheckIfMaskStatsUpToDate(p, statsUpdateCode, requestedClassNumber,
                                     requestedFieldNumber) THEN Ret(p, 1)
    ELSE LET raster == MaskRaster(p)
             stopAfter == IF mask.code = 1 THEN Len(raster) ELSE mask.stopAfter
             p1 == ScanMaskPixels([p EXCEPT !.scanCode = mask.code],
                                  statsUpdateCode, requestedClassNumber,
                                  requestedFieldNumber, raster, 1, stopAfter)
         IN IF mask.code = 1
            THEN Ret(FinishMaskStatsUpdate(p1, statsUpdateCode, requestedClassNumber,
                                           requestedFieldNumber), 1)
            ELSE Ret(p1, mask.code)

\* ------------------------------------------------------ UpdateStatsControl
\* The switch on statsWindowMode.  currentClass and currentField are
\* gProjectInfoPtr->currentClass and gProjectInfoPtr->currentField, the
\* selection of the project window.
UpdateStatsSwitch(p, statsWindowMode, currentClass, currentField, scan, mask) ==
    CASE statsWindowMode = kUpdateProject ->
            LET r1 == UpdateProjectAreaStats(ClearProjectStatisticsMemory(p), scan)
                r2 == IF r1.ret = 1
                          THEN UpdateProjectMaskStats(r1.p, statsWindowMode, -1, -1, mask)
                          ELSE r1
            IN IF r2.ret = 1 THEN Ret(FinishProjectStatsUpdate(r2.p), r2.ret) ELSE r2
      [] statsWindowMode = kUpdateClass ->
            LET r1 == UpdateClassAreaStats(ClearClassStatisticsMemory(p, currentClass),
                                           currentClass, scan)
                r2 == IF r1.ret = 1
                          THEN UpdateProjectMaskStats(r1.p, statsWindowMode,
                                                      currentClass, -1, mask)
                          ELSE r1
            IN IF r2.ret = 1 THEN Ret(FinishClassStatsUpdate(r2.p, currentClass).p, r2.ret)
                             ELSE r2
      [] statsWindowMode = kUpdateField ->
            LET r1 == UpdateFieldAreaStats(ClearFieldStatisticsMemory(p, currentField),
                                           currentField, scan[currentField])
            IN IF r1.ret = 1
                   THEN UpdateProjectMaskStats(r1.p, statsWindowMode, -1, currentField, mask)
                   ELSE r1

\* UpdateStatsControl going on after SetupStatsMemory failed.
UpdateStatsControlNoSetupTest(p, statsWindowMode, currentClass, currentField, run) ==
    IF ~(statsWindowMode >= kUpdateProject /\ statsWindowMode <= kUpdateField)
    THEN Ret(p, -1)
    ELSE LET r == UpdateStatsSwitch(p, statsWindowMode, currentClass, currentField,
                                    run.scan, run.mask)
         IN IF r.ret = 1 THEN Ret(r.p, IF run.loo = 2 THEN 1 ELSE run.loo) ELSE r

\* run.setup is the value of SetupStatsMemory, run.loo the value of
\* UpdateProjectLOOStats.
UpdateStatsControl(p, statsWindowMode, currentClass, currentField, run) ==
    IF ~(statsWindowMode >= kUpdateProject /\ statsWindowMode <= kUpdateField)
    THEN Ret(p, -1)
    ELSE IF ~run.setup THEN Ret(p, 0)
    ELSE LET r == UpdateStatsSwitch(p, statsWindowMode, currentClass, currentField,
                                    run.scan, run.mask)
         IN IF r.ret = 1 THEN Ret(r.p, IF run.loo = 2 THEN 1 ELSE run.loo) ELSE r

\* ------------------------------------------------------------------ inputs
\* GetAreaStats fails for at most one field of a call: the first failure ends it.
ScanOk == [f \in Fields |-> 1]
ScanFails(S) == {[f \in Fields |-> IF f = bad THEN code ELSE 1] :
                    bad \in S, code \in {0, -1}}

MaskOk(p) == [code |-> 1, stopAfter |-> Len(MaskRaster(p))]
MaskFails(p) ==
    LET n == Len(MaskRaster(p)) IN
    {[code |-> 0, stopAfter |-> k] : k \in 0 .. (n - 1)}
        \cup {[code |-> -1, stopAfter |-> k] : k \in 1 .. n}

\* What the collaborators of one UpdateStatsControl call answer.
\* S is the set of fields whose scan may fail.
Runs(p, S) ==
    {[setup |-> FALSE, scan |-> ScanOk, mask |-> MaskOk(p), loo |-> 1]}
    \cup {[setup |-> TRUE, scan |-> s, mask |-> MaskOk(p), loo |-> 1] : s \in ScanFails(S)}
    \cup {[setup |-> TRUE, scan |-> ScanOk, mask |-> m, loo |-> 1] : m \in MaskFails(p)}
    \cup {[setup |-> TRUE, scan |-> ScanOk, mask |-> MaskOk(p), loo |-> l] : l \in {1, 2}}

\* Pixel counts stay within MaxCount.
Bounded(p) ==
    /\ \A f \in Fields : p.fieldIdentPtr[f].numberPixelsUsedForStats <= MaxCount
    /\ \A c \in Classes : p.classNamesPtr[c].numberStatisticsPixels <= MaxCount
    /\ \A f, g \in Fields : p.fieldChanStatsPtr[f][g] <= MaxCount
    /\ \A c \in Classes, g \in Fields : p.classChanStatsPtr[c][g] <= MaxCount

\* ------------------------------------------------------------ the project
\* The kinds of field: <<fieldType, pointType>>.
FieldKinds == {<<kTrainingType, kRectangleType>>, <<kTrainingType, kMaskType>>,
               <<kTrainingType, kClusterType>>, <<kTestType, kRectangleType>>}

\* The fields of class c that follow field f in creation order.
LaterFields(cls, c, f) == {g \in Fields : g > f /\ cls[g] = c}

Smallest(S) == IF S = {} THEN -1 ELSE CHOOSE x \in S : \A y \in S : x <= y

\* A project as it stands before any statistics have been computed.
NewProject(kind, cls, keep) ==
    [fieldIdentPtr |->
        [f \in Fields |->
            [fieldType |-> kind[f][1],
             pointType |-> kind[f][2],
             classStorage |-> cls[f],
             nextField |-> Smallest(LaterFields(cls, cls[f], f)),
             trainingStatsNumber |-> IF keep THEN 0 ELSE f,
             numberPixelsUsedForStats |-> 0,
             statsUpToDate |-> FALSE,
             loadedIntoClassStats |-> FALSE]],
     classNamesPtr |->
        [c \in Classes |->
            [firstFieldNumber |-> Smallest(LaterFields(cls, c, -1)),
             numberOfTrainFields |->
                 Cardinality({f \in Fields : cls[f] = c /\ kind[f][1] = kTrainingType}),
             numberStatisticsPixels |-> 0,
             statsUpToDate |-> FALSE]],
     keepClassStatsOnlyFlag |-> keep,
     statsUpToDate |-> FALSE,
     maskHandle |-> \E f \in Fields : kind[f] = <<kTrainingType, kMaskType>>,
     fieldChanStatsPtr |-> [f \in Fields |-> ZeroSum],
     classChanStatsPtr |-> [c \in Classes |-> ZeroSum],
     scanCode |-> 2]

NoOutput == [sum |-> ZeroSum, merged |-> <<>>]
NoCall == [op |-> "none", mode |-> 0, arg |-> -1, ret |-> 0, n |-> 0, out |-> NoOutput]
Idle == "idle"

\* Classes are numbered in the order in which their first field was created:
\* field 0 belongs to class 0, and a field opens at most the next class.
ClassOfFields ==
    {cls \in [Fields -> Classes] :
        \A f \in Fields : \A c \in Classes :
            c < cls[f] => \E g \in Fields : g < f /\ cls[g] = c}

InitProject ==
    \E kind \in [Fields -> FieldKinds], cls \in ClassOfFields, keep \in BOOLEAN :
        gProjectInfoPtr = NewProject(kind, cls, keep)

FieldsOfClass(p, c) == {f \in Fields : p.fieldIdentPtr[f].classStorage = c}

\* Entry of a routine: no scan has run yet in this call.
Enter == [gProjectInfoPtr EXCEPT !.scanCode = 2]

Done(op, mode, arg, r) ==
    /\ call.n < MaxCalls
    /\ Bounded(r.p)
    /\ gProjectInfoPtr' = r.p
    /\ call' = [op |-> op, mode |-> mode, arg |-> arg, ret |-> r.ret, n |-> call.n + 1,
                out |-> NoOutput]
    /\ UNCHANGED <<chan, cov>>

UpdateProjectStats ==
    \E run \in Runs(gProjectInfoPtr, Fields) :
        Done("UpdateStatsControl", kUpdateProject, -1,
             UpdateStatsControl(Enter, kUpdateProject, -1, -1, run))

UpdateClassStats ==
    \E c \in Classes :
      \E run \in Runs(gProjectInfoPtr, FieldsOfClass(gProjectInfoPtr, c)) :
        Done("UpdateStatsControl", kUpdateClass, c,
             UpdateStatsControl(Enter, kUpdateClass, c, -1, run))

UpdateFieldStats ==
    \E f \in Fields :
      \E run \in Runs(gProjectInfoPtr, {f}) :
        Done("UpdateStatsControl", kUpdateField, f,
             UpdateStatsControl(Enter, kUpdateField, -1, f, run))

\* The routines called on their own.
CallFinishClassStatsUpdate ==
    \E c \in Classes :
        Done("FinishClassStatsUpdate", 0, c, FinishClassStatsUpdate(Enter, c))

CallUpdateClassAreaStats ==
    \E c \in Classes :
      \E scan \in {ScanOk} \cup ScanFails(FieldsOfClass(gProjectInfoPtr, c)) :
        Done("UpdateClassAreaStats", 0, c, UpdateClassAreaStats(Enter, c, scan))

CallUpdateFieldAreaStats ==
    \E f \in Fields, scan \in {1, 0, -1} :
        Done("UpdateFieldAreaStats", 0, f, UpdateFieldAreaStats(Enter, f, scan))

\* The output sums are zeroed by the caller of CombineFieldStatistics.
CallCombineFieldStatistics ==
    \E c \in Classes :
        /\ call.n < MaxCalls
        /\ call' = [op |-> "CombineFieldStatistics", mode |-> 0, arg |-> c, ret |-> 1,
                    n |-> call.n + 1,
                    out |-> CombineFieldStatistics(gProjectInfoPtr, ZeroSum, c)]
        /\ UNCHANGED <<gProjectInfoPtr, chan, cov>>

CallCombineFieldChannelStatistics ==
    \E c \in Classes :
        /\ call.n < MaxCalls
        /\ call' = [op |-> "CombineFieldChannelStatistics", mode |-> 0, arg |-> c, ret |-> 1,
                    n |-> call.n + 1,
                    out |-> CombineFieldChannelStatistics(gProjectInfoPtr, ZeroSum, c)]
        /\ UNCHANGED <<gProjectInfoPtr, chan, cov>>

NextControl == UpdateProjectStats \/ UpdateClassStats \/ UpdateFieldStats

NextCalls ==
    \/ CallFinishClassStatsUpdate
    \/ CallUpdateClassAreaStats
    \/ CallUpdateFieldAreaStats
    \/ CallCombineFieldStatistics
    \/ CallCombineFieldChannelStatistics

InitControl == InitProject /\ call = NoCall /\ chan = Idle /\ cov = Idle

\* The updates the project window starts.
SpecControl == InitControl /\ [][NextControl]_vars

\* The updates and the routines beneath them.
Spec == InitControl /\ [][NextControl \/ NextCalls]_vars

\* The class area update and the finish of a class, called on their own, and
\* the class updates of the project window.
NextArea == CallUpdateClassAreaStats \/ CallFinishClassStatsUpdate \/ UpdateClassStats

SpecArea == InitControl /\ [][NextArea]_vars

\* Project updates and the two routines that combine the field statistics of
\* a class.
NextCombine ==
    UpdateProjectStats \/ CallCombineFieldStatistics \/ CallCombineFieldChannelStatistics

SpecCombine == InitControl /\ [][NextCombine]_vars

\* UpdateProjectMaskStats called on its own, between updates.  The call
\* record keeps the project as it was on entry.
MaskRequests ==
    {[code |-> kUpdateProject, classNumber |-> -1, fieldNumber |-> -1]}
        \cup {[code |-> kUpdateClass, classNumber |-> c, fieldNumber |-> -1] : c \in Classes}
        \cup {[code |-> kUpdateField, classNumber |-> -1, fieldNumber |-> f] : f \in Fields}

CallUpdateProjectMaskStats ==
    \E request \in MaskRequests :
      \E mask \in {MaskOk(gProjectInfoPtr)} \cup MaskFails(gProjectInfoPtr) :
        LET r == UpdateProjectMaskStats(Enter, request.code, request.classNumber,
                                        request.fieldNumber, mask)
        IN /\ call.n < MaxCalls
           /\ Bounded(r.p)
           /\ gProjectInfoPtr' = r.p
           /\ call' = [op |-> "UpdateProjectMaskStats", mode |-> request.code,
                       arg |-> IF request.code = kUpdateClass THEN request.classNumber
                                                              ELSE request.fieldNumber,
                       ret |-> r.ret, n |-> call.n + 1, out |-> NoOutput,
                       request |-> request, before |-> gProjectInfoPtr]
           /\ UNCHANGED <<chan, cov>>

NextMask == CallUpdateProjectMaskStats \/ UpdateProjectStats

\* The mask scan on its own and project updates.
SpecMask == InitControl /\ [][NextMask]_vars

\* UpdateStatsControl with the answers of its collaborators and the project
\* on entry kept in the call record; interrupted: the mask scan of the call
\* before this one was canceled or failed.
UpdateRequests ==
    {[mode |-> kUpdateProject, currentClass |-> -1, currentField |-> -1]}
        \cup {[mode |-> kUpdateClass, currentClass |-> c, currentField |-> -1] : c \in Classes}
        \cup {[mode |-> kUpdateField, currentClass |-> -1, currentField |-> f] : f \in Fields}

RequestFields(p, request) ==
    CASE request.mode = kUpdateProject -> Fields
      [] request.mode = kUpdateClass -> FieldsOfClass(p, request.currentClass)
      [] OTHER -> {request.currentField}

UpdateStatsControlCall(request, run) ==
    LET r == UpdateStatsControl(Enter, request.mode, request.currentClass,
                                request.currentField, run)
    IN /\ call.n < MaxCalls
       /\ Bounded(r.p)
       /\ gProjectInfoPtr' = r.p
       /\ call' = [op |-> "UpdateStatsControl", mode |-> request.mode,
                   arg |-> IF request.mode = kUpdateClass THEN request.currentClass
                                                          ELSE request.currentField,
                   ret |-> r.ret, n |-> call.n + 1, out |-> NoOutput,
                   run |-> run, before |-> Enter,
                   interrupted |-> gProjectInfoPtr.scanCode \in {0, -1}]
       /\ UNCHANGED <<chan, cov>>

CallUpdateStatsControl ==
    \E request \in UpdateRequests :
      \E run \in Runs(gProjectInfoPtr, RequestFields(gProjectInfoPtr, request)) :
        UpdateStatsControlCall(request, run)

\* The calls in which only SetupStatsMemory can fail.
SetupRuns(p) ==
    {[setup |-> setup, scan |-> ScanOk, mask |-> MaskOk(p), loo |-> 1] : setup \in BOOLEAN}

CallUpdateStatsControlSetup ==
    \E request \in UpdateRequests, run \in SetupRuns(gProjectInfoPtr) :
        UpdateStatsControlCall(request, run)

NextUpdate == CallUpdateStatsControl

\* Updates of the project, of a class and of a field, one after the other.
SpecUpdate == InitControl /\ [][NextUpdate]_vars

NextSetup == CallUpdateStatsControlSetup

\* Updates in which the statistics memory may not be available.
SpecSetup == InitControl /\ [][NextSetup]_vars

\* ================================================= channel statistics vector
\* A channel statistics record holds sum, standardDev, minimum and maximum
\* (the mean is derived with standardDev and is not kept here).  A vector is
\* a function from the channel index to a record.
Channels == 0 .. (NumChannels - 1)
NULL == <<>>

Min(a, b) == IF a < b THEN a ELSE b
Max(a, b) == IF a > b THEN a ELSE b

\* AddChannelRecord that adds to the output record also on the first field.
AddChannelRecordAlwaysAdd(outRecord, inRecord, initializeFlag) ==
    [outRecord EXCEPT !.sum = @ + inRecord.sum,
                      !.minimum = Min(@, inRecord.minimum),
                      !.maximum = Max(@, inRecord.maximum)]

\* The body of "if (channel == channelNum)": one output record is written.
AddChannelRecord(outRecord, inRecord, initializeFlag) ==
    IF initializeFlag
    THEN [outRecord EXCEPT !.sum = inRecord.sum,
                           !.standardDev = -1,
                           !.minimum = inRecord.minimum,
                           !.maximum = inRecord.maximum]
    ELSE [outRecord EXCEPT !.sum = @ + inRecord.sum,
                           !.minimum = Min(@, inRecord.minimum),
                           !.maximum = Max(@, inRecord.maximum)]

\* The for loop over the input channels.  acc = [out, written]: the output
\* vector and the output indices written so far; outIndex is the position of
\* outChannelStatsPtr.  channelListPtr holds 1-based what the code indexes
\* from 0.
RECURSIVE AddChannelLoop(_, _, _, _, _, _, _, _, _)
AddChannelLoop(acc, inChannelStats, numberInputChannels, channelListPtr, channelListIndexLimit, initializeFlag, channel, channelListIndex, count) ==
    IF channel >= numberInputChannels THEN acc
    ELSE LET channelNum == IF channelListPtr # NULL
                               THEN channelListPtr[channelListIndex + 1]
                               ELSE count.channelNum
             match == channel = channelNum
             acc1 == IF match
                         THEN [out |-> [acc.out EXCEPT ![count.outIndex] =
                                           AddChannelRecord(@, inChannelStats[channelNum],
                                                            initializeFlag)],
                               written |-> acc.written \cup {count.outIndex}]
                         ELSE acc
         IN AddChannelLoop(acc1, inChannelStats, numberInputChannels, channelListPtr,
                           channelListIndexLimit, initializeFlag, channel + 1,
                           IF match /\ channelListIndex < channelListIndexLimit
                               THEN channelListIndex + 1 ELSE channelListIndex,
                           [channelNum |-> channelNum + 1,
                            outIndex |-> IF match THEN count.outIndex + 1
                                                  ELSE count.outIndex])

\* AddToClassChannelStatistics reading the list also when the two channel
\* counts are equal.
AddToClassChannelStatisticsKeepList(numberOutputChannels, outChannelStats, numberInputChannels, channelListPtr, inChannelStats, initializeFlag) ==
    AddChannelLoop([out |-> outChannelStats, written |-> {}], inChannelStats,
                   numberInputChannels, channelListPtr,
                   numberOutputChannels - 1, initializeFlag, 0, 0,
                   [channelNum |-> 0, outIndex |-> 0])

AddToClassChannelStatistics(numberOutputChannels, outChannelStats, numberInputChannels, channelListPtr, inChannelStats, initializeFlag) ==
    AddChannelLoop([out |-> outChannelStats, written |-> {}], inChannelStats,
                   numberInputChannels,
                   IF numberOutputChannels = numberInputChannels THEN NULL
                                                                 ELSE channelListPtr,
                   numberOutputChannels - 1, initializeFlag, 0, 0,
                   [channelNum |-> 0, outIndex |-> 0])

\* The channel loop of the mask scan for one pixel: buffer[channel] is the
\* data value dValue of the pixel in that channel.
AccumulatePixelChannels(areaChan, buffer) ==
    [channel \in Channels |->
        [areaChan[channel] EXCEPT !.minimum = Min(@, buffer[channel]),
                                  !.maximum = Max(@, buffer[channel]),
                                  !.sum = @ + buffer[channel]]]

\* ComputeMeanStdDevVector derives mean and standardDev from the sums; the
\* standardDev it stores is not negative.
ComputeMeanStdDevVector(channelStats, stdDev) ==
    [channel \in Channels |-> [channelStats[channel] EXCEPT !.standardDev = stdDev[channel]]]

\* The statistics of a field whose mean and standardDev have been computed.
FieldChannelStats ==
    [channel \in Channels |->
        [sum |-> channel + 1, standardDev |-> 0,
         minimum |-> channel + 1, maximum |-> channel + 1]]

\* An output vector: zeroed memory, or statistics computed earlier.
ZeroedChannelStats ==
    [channel \in Channels |-> [sum |-> 0, standardDev |-> -1, minimum |-> 9, maximum |-> 0]]
ComputedChannelStats ==
    [channel \in Channels |-> [sum |-> 2, standardDev |-> 1, minimum |-> 1, maximum |-> 1]]

\* The channel lists of numberOutputChannels different channels, in any order.
ChannelLists(numberOutputChannels) ==
    {L \in [1 .. numberOutputChannels -> Channels] :
        \A i, j \in 1 .. numberOutputChannels : i # j => L[i] # L[j]}

InitChan ==
    /\ \E out \in {ZeroedChannelStats, ComputedChannelStats} :
          chan = [in |-> FieldChannelStats, out |-> out, prev |-> out, op |-> "none",
                  list |-> NULL, numberOutputChannels |-> 0, initializeFlag |-> FALSE,
                  written |-> {}, n |-> 0]
    /\ gProjectInfoPtr = Idle /\ call = Idle /\ cov = Idle

ChanDone(op, list, numberOutputChannels, initializeFlag, acc) ==
    /\ chan.n < MaxSteps
    /\ chan' = [chan EXCEPT !.out = acc.out, !.prev = chan.out, !.op = op, !.list = list,
                            !.numberOutputChannels = numberOutputChannels,
                            !.initializeFlag = initializeFlag,
                            !.written = acc.written, !.n = @ + 1]
    /\ UNCHANGED <<gProjectInfoPtr, call, cov>>

ChanAdd ==
    \E numberOutputChannels \in 1 .. NumChannels, initializeFlag \in BOOLEAN :
      \E channelListPtr \in ChannelLists(numberOutputChannels) :
        ChanDone("AddToClassChannelStatistics", channelListPtr, numberOutputChannels,
                 initializeFlag,
                 AddToClassChannelStatistics(numberOutputChannels, chan.out, NumChannels,
                                             channelListPtr, chan.in, initializeFlag))

ChanMaskPixel ==
    \E buffer \in [Channels -> {1, 2}] :
        ChanDone("UpdateProjectMaskStats", NULL, NumChannels, FALSE,
                 [out |-> AccumulatePixelChannels(chan.out, buffer), written |-> Channels])

ChanComputeMeanStdDev ==
    \E stdDev \in [Channels -> {0, 1}] :
        ChanDone("ComputeMeanStdDevVector", NULL, NumChannels, FALSE,
                 [out |-> ComputeMeanStdDevVector(chan.out, stdDev), written |-> {}])

NextChan == ChanAdd \/ ChanMaskPixel \/ ChanComputeMeanStdDev

\* The routines that write a channel statistics vector.
SpecChan == InitChan /\ [][NextChan]_vars

\* ============================= combining the channel vectors of a class
\* CombineFieldChannelStatistics on numeric channel records.  chan holds the
\* chain of one class (firstFieldNumber, nextField), the channel statistics of
\* its fields and the caller's output vector.
ChainOrders ==
    {order \in [1 .. NumFields -> Fields] :
        \A i, j \in 1 .. NumFields : i # j => order[i] # order[j]}

FieldValues == {1, 2}

\* The channel statistics of a field whose pixels have the data value v in
\* channel 0 and larger values in the later channels.
FieldChanStats(v) ==
    [channel \in Channels |->
        [sum |-> 2 * v + channel, standardDev |-> 0,
         minimum |-> v, maximum |-> v + channel]]

\* The class chain in which the fields follow each other as in order.
LinkChain(c, order) ==
    [c EXCEPT !.firstFieldNumber = order[1],
              !.fieldIdentPtr = [f \in Fields |->
                  LET i == CHOOSE k \in 1 .. NumFields : order[k] = f IN
                  [c.fieldIdentPtr[f] EXCEPT
                      !.nextField = IF i < NumFields THEN order[i + 1] ELSE -1]]]

\* The while loop over the chain.  acc = [out, merged, flags]: the output
\* vector, the fields added so far and the initializeFlag each was added with.
RECURSIVE CombineFieldChannelVectorLoop(_, _, _, _, _, _)
CombineFieldChannelVectorLoop(c, fieldNumber, acc, initializeFlag, numberOutputChannels, channelListPtr) ==
    IF fieldNumber = -1 THEN acc
    ELSE LET fieldIdent == c.fieldIdentPtr[fieldNumber] IN
         IF fieldIdent.fieldType = kTrainingType /\ fieldIdent.statsUpToDate
         THEN LET fieldChan == c.fieldChanStatsPtr[fieldIdent.trainingStatsNumber]
                  added == AddToClassChannelStatistics(numberOutputChannels, acc.out,
                               NumChannels, channelListPtr, fieldChan, initializeFlag)
              IN CombineFieldChannelVectorLoop(c, fieldIdent.nextField,
                     [out |-> added.out,
                      merged |-> Append(acc.merged, fieldNumber),
                      flags |-> Append(acc.flags, initializeFlag)],
                     FALSE, numberOutputChannels, channelListPtr)
         ELSE CombineFieldChannelVectorLoop(c, fieldIdent.nextField, acc, initializeFlag,
                                            numberOutputChannels, channelListPtr)

\* CombineFieldChannelStatistics: nothing is done for numberOutputChannels <= 0.
CombineFieldChannelVectors(c, numberOutputChannels, classChannelStats, channelListPtr) ==
    LET acc == [out |-> classChannelStats, merged |-> <<>>, flags |-> <<>>] IN
    IF numberOutputChannels <= 0 THEN acc
    ELSE CombineFieldChannelVectorLoop(c, c.firstFieldNumber, acc, TRUE,
                                       numberOutputChannels, channelListPtr)

InitMerge ==
    /\ \E order \in ChainOrders, fieldType \in [Fields -> {kTrainingType, kTestType}],
          statsUpToDate \in [Fields -> BOOLEAN], v \in [Fields -> FieldValues],
          out \in {ZeroedChannelStats, ComputedChannelStats} :
          chan = LinkChain(
                   [firstFieldNumber |-> -1,
                    fieldIdentPtr |-> [f \in Fields |->
                        [fieldType |-> fieldType[f], statsUpToDate |-> statsUpToDate[f],
                         trainingStatsNumber |-> f, nextField |-> -1]],
                    fieldChanStatsPtr |-> [f \in Fields |-> FieldChanStats(v[f])],
                    out |-> out, prev |-> out, op |-> "none", list |-> NULL,
                    numberOutputChannels |-> 0, merged |-> <<>>, flags |-> <<>>],
                   order)
    /\ gProjectInfoPtr = Idle /\ call = Idle /\ cov = Idle

CallCombineFieldChannelVectors ==
    /\ chan.op = "none"
    /\ \E numberOutputChannels \in 0 .. NumChannels :
         \E channelListPtr \in ChannelLists(numberOutputChannels) :
           LET acc == CombineFieldChannelVectors(chan, numberOutputChannels, chan.out,
                                                 channelListPtr)
           IN chan' = [chan EXCEPT !.out = acc.out, !.prev = chan.out,
                                   !.op = "CombineFieldChannelStatistics",
                                   !.list = channelListPtr,
                                   !.numberOutputChannels = numberOutputChannels,
                                   !.merged = acc.merged, !.flags = acc.flags]
    /\ UNCHANGED <<gProjectInfoPtr, call, cov>>

NextMerge == CallCombineFieldChannelVectors

\* One call of CombineFieldChannelStatistics on a class chain in any order.
SpecMerge == InitMerge /\ [][NextMerge]_vars

\* ============================================== conditioning a packed matrix
\* A covariance buffer is a function from the offset 0 .. size-1 to its value.
\* Triangular shape keeps row i as the entries (i,0) .. (i,i); square shape is
\* row-major; a mean/standard deviation only buffer is the variance vector.
MatrixSize(numberFeatures, squareMatrixFlag, statisticsCode) ==
    IF statisticsCode = kMeanStdDevOnly THEN numberFeatures
    ELSE IF squareMatrixFlag THEN numberFeatures * numberFeatures
    ELSE (numberFeatures * (numberFeatures + 1)) \div 2

\* CopyLowerToUpperSquareMatrix: entry (i,j), j > i, becomes entry (j,i).
CopyLowerToUpperSquareMatrix(numberFeatures, matrix) ==
    [k \in DOMAIN matrix |->
        LET i == k \div numberFeatures
            j == k % numberFeatures
        IN IF j > i THEN matrix[j * numberFeatures + i] ELSE matrix[k]]

\* ResetZeroVariance that replaces the entry whatever its value.
ResetZeroVarianceAnyValue(r, covariancePtr, zeroVarianceFactor) ==
    [matrix |-> [r.matrix EXCEPT ![covariancePtr] = zeroVarianceFactor],
     varianceResetFlag |-> TRUE]

\* The body of "if (*covariancePtr == 0.)"; r = [matrix, varianceResetFlag].
ResetZeroVariance(r, covariancePtr, zeroVarianceFactor) ==
    IF r.matrix[covariancePtr] = 0
    THEN [matrix |-> [r.matrix EXCEPT ![covariancePtr] = zeroVarianceFactor],
          varianceResetFlag |-> TRUE]
    ELSE r

\* The for loop of ResetZeroVariances.
RECURSIVE ResetZeroVariancesLoop(_, _, _, _, _, _, _, _)
ResetZeroVariancesLoop(r, squareMatrixFlag, outputStatisticsCode, numberFeatures, zeroVarianceFactor, feature, covariancePtr, indexSkip) ==
    IF feature >= numberFeatures THEN r
    ELSE LET r1 == ResetZeroVariance(r, covariancePtr, zeroVarianceFactor) IN
         IF outputStatisticsCode = kMeanStdDevOnly
         THEN ResetZeroVariancesLoop(r1, squareMatrixFlag, outputStatisticsCode,
                  numberFeatures, zeroVarianceFactor, feature + 1,
                  covariancePtr + 1, indexSkip)
         ELSE IF squareMatrixFlag
         THEN ResetZeroVariancesLoop(r1, squareMatrixFlag, outputStatisticsCode,
                  numberFeatures, zeroVarianceFactor, feature + 1,
                  covariancePtr + indexSkip, indexSkip)
         ELSE ResetZeroVariancesLoop(r1, squareMatrixFlag, outputStatisticsCode,
                  numberFeatures, zeroVarianceFactor, feature + 1,
                  covariancePtr + indexSkip, indexSkip + 1)

\* ResetZeroVariances whose varianceResetFlag starts TRUE.
ResetZeroVariancesFlagSet(matrix, squareMatrixFlag, outputStatisticsCode, numberFeatures, zeroVarianceFactor) ==
    IF numberFeatures = 0 THEN [matrix |-> matrix, ret |-> FALSE]
    ELSE LET r == ResetZeroVariancesLoop(
                      [matrix |-> matrix, varianceResetFlag |-> TRUE],
                      squareMatrixFlag, outputStatisticsCode, numberFeatures,
                      zeroVarianceFactor, 0, 0,
                      IF squareMatrixFlag THEN numberFeatures + 1 ELSE 2)
         IN [matrix |-> r.matrix, ret |-> r.varianceResetFlag]

ResetZeroVariances(matrix, squareMatrixFlag, outputStatisticsCode, numberFeatures, zeroVarianceFactor) ==
    IF numberFeatures = 0 THEN [matrix |-> matrix, ret |-> FALSE]
    ELSE LET r == ResetZeroVariancesLoop(
                      [matrix |-> matrix, varianceResetFlag |-> FALSE],
                      squareMatrixFlag, outputStatisticsCode, numberFeatures,
                      zeroVarianceFactor, 0, 0,
                      IF squareMatrixFlag THEN numberFeatures + 1 ELSE 2)
         IN [matrix |-> r.matrix, ret |-> r.varianceResetFlag]

\* The inner loop of the comparison for one row; s = [ptr, flag].  The break
\* leaves the pointer where the differing entry was found.
RECURSIVE CompareRow(_, _, _, _, _)
CompareRow(matrix, compareVariance, s, feature1, feature2) ==
    IF feature2 > feature1 THEN s
    ELSE IF compareVariance # matrix[s.ptr] THEN [s EXCEPT !.flag = FALSE]
    ELSE CompareRow(matrix, compareVariance, [s EXCEPT !.ptr = @ + 1], feature1, feature2 + 1)

RECURSIVE CompareRows(_, _, _, _, _, _, _)
CompareRows(matrix, compareVariance, s, squareMatrixFlag, numberFeatures, feature1, upperRightIndexSkip) ==
    IF feature1 >= numberFeatures THEN s.flag
    ELSE LET s1 == CompareRow(matrix, compareVariance, s, feature1, 0) IN
         IF squareMatrixFlag
         THEN CompareRows(matrix, compareVariance, [s1 EXCEPT !.ptr = @ + upperRightIndexSkip],
                          squareMatrixFlag, numberFeatures, feature1 + 1,
                          upperRightIndexSkip - 1)
         ELSE CompareRows(matrix, compareVariance, s1, squareMatrixFlag, numberFeatures,
                          feature1 + 1, upperRightIndexSkip)

\* The second pair of loops: the entries before the diagonal of each row are
\* set to 0, the diagonal and (square shape) the upper right part are skipped.
RECURSIVE ZeroCovariances(_, _, _, _, _, _)
ZeroCovariances(matrix, squareMatrixFlag, numberFeatures, feature1, covariancePtr, upperRightIndexSkip) ==
    IF feature1 >= numberFeatures THEN matrix
    ELSE LET zeroed == [k \in DOMAIN matrix |->
                           IF k >= covariancePtr /\ k < covariancePtr + feature1
                               THEN 0 ELSE matrix[k]]
             next == covariancePtr + feature1 + 1
         IN IF squareMatrixFlag
            THEN ZeroCovariances(zeroed, squareMatrixFlag, numberFeatures, feature1 + 1,
                                 next + upperRightIndexSkip, upperRightIndexSkip - 1)
            ELSE ZeroCovariances(zeroed, squareMatrixFlag, numberFeatures, feature1 + 1,
                                 next, upperRightIndexSkip)

\* ResetForAllVariancesEqual that does not compare the entries.
ResetForAllVariancesEqualNoCompare(matrix, squareMatrixFlag, statisticsCode, numberFeatures) ==
    IF numberFeatures <= 1 \/ statisticsCode = kMeanStdDevOnly
    THEN [matrix |-> matrix, ret |-> FALSE]
    ELSE LET zeroed == ZeroCovariances(matrix, squareMatrixFlag, numberFeatures, 0, 0,
                                       numberFeatures - 1)
         IN [matrix |-> IF squareMatrixFlag
                            THEN CopyLowerToUpperSquareMatrix(numberFeatures, zeroed)
                            ELSE zeroed,
             ret |-> TRUE]

ResetForAllVariancesEqual(matrix, squareMatrixFlag, statisticsCode, numberFeatures) ==
    IF numberFeatures <= 1 \/ statisticsCode = kMeanStdDevOnly
    THEN [matrix |-> matrix, ret |-> FALSE]
    ELSE LET variancesEqualFlag ==
                 CompareRows(matrix, matrix[0], [ptr |-> 0, flag |-> TRUE],
                             squareMatrixFlag, numberFeatures, 0, numberFeatures - 1)
             zeroed == ZeroCovariances(matrix, squareMatrixFlag, numberFeatures, 0, 0,
                                       numberFeatures - 1)
         IN IF ~variancesEqualFlag THEN [matrix |-> matrix, ret |-> FALSE]
            ELSE [matrix |-> IF squareMatrixFlag
                                 THEN CopyLowerToUpperSquareMatrix(numberFeatures, zeroed)
                                 ELSE zeroed,
                  ret |-> TRUE]

MatrixValues == {0, 1}
ZeroVarianceFactors == {0, 2}

InitMatrix ==
    /\ \E numberFeatures \in 0 .. MaxFeatures, squareMatrixFlag \in BOOLEAN,
          statisticsCode \in {kMeanStdDevOnly, kMeanCovariance},
          zeroVarianceFactor \in ZeroVarianceFactors :
        \E matrix \in [0 .. (MatrixSize(numberFeatures, squareMatrixFlag, statisticsCode) - 1)
                         -> MatrixValues] :
          cov = [matrix |-> matrix, prev |-> matrix, numberFeatures |-> numberFeatures,
                 squareMatrixFlag |-> squareMatrixFlag, statisticsCode |-> statisticsCode,
                 zeroVarianceFactor |-> zeroVarianceFactor,
                 op |-> "none", ret |-> FALSE, prevOp |-> "none", prevRet |-> FALSE,
                 n |-> 0]
    /\ gProjectInfoPtr = Idle /\ call = Idle /\ chan = Idle

MatrixDone(op, r) ==
    /\ cov.n < MaxSteps
    /\ cov' = [cov EXCEPT !.matrix = r.matrix, !.prev = cov.matrix, !.op = op,
                          !.ret = r.ret, !.prevOp = cov.op, !.prevRet = cov.ret,
                          !.n = @ + 1]
    /\ UNCHANGED <<gProjectInfoPtr, call, chan>>

CallResetZeroVariances ==
    MatrixDone("ResetZeroVariances",
               ResetZeroVariances(cov.matrix, cov.squareMatrixFlag, cov.statisticsCode,
                                  cov.numberFeatures, cov.zeroVarianceFactor))

CallResetForAllVariancesEqual ==
    MatrixDone("ResetForAllVariancesEqual",
               ResetForAllVariancesEqual(cov.matrix, cov.squareMatrixFlag,
                                         cov.statisticsCode, cov.numberFeatures))

NextMatrix == CallResetZeroVariances \/ CallResetForAllVariancesEqual

\* The two conditioning passes on one covariance buffer.
SpecMatrix == InitMatrix /\ [][NextMatrix]_vars

\* ==================================================== ComputeVarianceVector
\* variance is the output vector (in GetClassCovarianceMatrix it is the buffer
\* that holds the sums of squares); stdDev is what ComputeMeanStdDevVector
\* derives from the sums.  r = [channelStats, variance].
ComputeVarianceVector(channelStats, variance, numberChannels, numberPixels, stdDev) ==
    IF numberChannels > 0 /\ numberPixels > 0
    THEN LET computed == ComputeMeanStdDevVector(channelStats, stdDev)
             stats == IF channelStats[0].standardDev < 0
                          THEN [channel \in Channels |->
                                   IF channel < numberChannels THEN computed[channel]
                                                               ELSE channelStats[channel]]
                          ELSE channelStats
         IN [channelStats |-> stats,
             variance |-> [channel \in Channels |->
                 IF channel >= numberChannels THEN variance[channel]
                 ELSE IF numberPixels > 1
                      THEN stats[channel].standardDev * stats[channel].standardDev
                      ELSE 0]]
    ELSE [channelStats |-> channelStats, variance |-> variance]

\* The value of a sum of squares left in the buffer by GetClassSumsSquares.
SumSquaresValue == 7
StdDevValues == {-1, 2}
PixelCounts == 0 .. MaxCount

InitVariance ==
    /\ \E standardDev \in [Channels -> StdDevValues], numberPixels \in PixelCounts,
          numberChannels \in 0 .. NumChannels :
          chan = [channelStats |-> [channel \in Channels |->
                      [sum |-> 2, standardDev |-> standardDev[channel],
                       minimum |-> 1, maximum |-> 1]],
                  variance |-> [channel \in Channels |-> SumSquaresValue],
                  prev |-> [channel \in Channels |-> SumSquaresValue],
                  numberChannels |-> numberChannels, numberPixels |-> numberPixels,
                  op |-> "none"]
    /\ gProjectInfoPtr = Idle /\ call = Idle /\ cov = Idle

CallComputeVarianceVector ==
    /\ chan.op = "none"
    /\ \E stdDev \in [Channels -> {0, 1}] :
         LET r == ComputeVarianceVector(chan.channelStats, chan.variance,
                                        chan.numberChannels, chan.numberPixels, stdDev)
         IN chan' = [chan EXCEPT !.channelStats = r.channelStats, !.variance = r.variance,
                                 !.prev = chan.variance, !.op = "ComputeVarianceVector"]
    /\ UNCHANGED <<gProjectInfoPtr, call, cov>>

NextVariance == CallComputeVarianceVector

\* One call of ComputeVarianceVector.
SpecVariance == InitVariance /\ [][NextVariance]_vars

\* ========================================== ComputeCorrelationFromCovMatrix
\* Row and column of an offset of a correlation buffer of numberOutputChannels
\* rows; the column is past the row for an offset of the upper right part.
CorrelationRow(k, numberOutputChannels, squareOutputMatrixFlag) ==
    IF squareOutputMatrixFlag THEN k \div numberOutputChannels
    ELSE CHOOSE i \in 0 .. numberOutputChannels :
             (i * (i + 1)) \div 2 <= k /\ k < ((i + 1) * (i + 2)) \div 2

CorrelationColumn(k, numberOutputChannels, squareOutputMatrixFlag) ==
    IF squareOutputMatrixFlag THEN k % numberOutputChannels
    ELSE LET i == CorrelationRow(k, numberOutputChannels, squareOutputMatrixFlag)
         IN k - (i * (i + 1)) \div 2

\* The offset of entry (channel, covChan), covChan <= channel.
CorrelationOffset(channel, covChan, numberOutputChannels, squareOutputMatrixFlag) ==
    IF squareOutputMatrixFlag THEN channel * numberOutputChannels + covChan
    ELSE (channel * (channel + 1)) \div 2 + covChan

\* The index into the standard deviation vector that lStdDevVectorPtr1 has in
\* the pass of the outer loop for channel.
StdDevIndex1(channelListPtr, useList, channel) ==
    IF useList THEN channelListPtr[channel] ELSE channel

\* The index that lStdDevVectorPtr2 has when "channelStdDev2 =
\* *lStdDevVectorPtr2" runs in the pass of the inner loop for covChan: the
\* pointer starts at the vector, is moved to the list's entry for the pass
\* only after the read and only when the value read is positive, and is
\* incremented at the end of the pass.
RECURSIVE StdDevIndex2(_, _, _, _)
StdDevIndex2(stdDevVectorPtr, channelListPtr, useList, covChan) ==
    IF covChan = 0 THEN 0
    ELSE LET before == StdDevIndex2(stdDevVectorPtr, channelListPtr, useList, covChan - 1)
         IN IF stdDevVectorPtr[before] > 0 /\ useList
                THEN channelListPtr[covChan - 1] + 1
                ELSE before + 1

\* The entry (channel, covChan) after the two loops.
CorrelationEntry(value, stdDevVectorPtr, channelListPtr, useList, channel, covChan) ==
    LET channelStdDev1 == stdDevVectorPtr[StdDevIndex1(channelListPtr, useList, channel)]
        channelStdDev2 ==
            stdDevVectorPtr[StdDevIndex2(stdDevVectorPtr, channelListPtr, useList, covChan)]
    IN IF channelStdDev1 > 0
           THEN IF channelStdDev2 > 0 THEN value \div (channelStdDev1 * channelStdDev2)
                                      ELSE 0
           ELSE 0

ComputeCorrelationFromCovMatrix(numberOutputChannels, correlationPtr, numberInputChannels, channelListPtr, stdDevVectorPtr, squareOutputMatrixFlag) ==
    IF numberOutputChannels = 0 \/ numberInputChannels = 0 THEN correlationPtr
    ELSE LET useList == numberOutputChannels # numberInputChannels
             lower == [k \in DOMAIN correlationPtr |->
                 LET channel == CorrelationRow(k, numberOutputChannels, squareOutputMatrixFlag)
                     covChan == CorrelationColumn(k, numberOutputChannels,
                                                  squareOutputMatrixFlag)
                 IN IF covChan > channel THEN correlationPtr[k]
                    ELSE CorrelationEntry(correlationPtr[k], stdDevVectorPtr, channelListPtr,
                                          useList, channel, covChan)]
         IN IF squareOutputMatrixFlag
                THEN CopyLowerToUpperSquareMatrix(numberOutputChannels, lower)
                ELSE lower

\* The covariance every entry of the input buffer holds, and the standard
\* deviations of the input channels.
CovarianceValue == 4
CorrelationStdDevs == {0, 1, 2}

\* The channel lists of numberOutputChannels channels, in ascending order.
AscendingChannelLists(numberOutputChannels) ==
    {list \in [0 .. (numberOutputChannels - 1) -> Channels] :
        \A i, j \in DOMAIN list : i < j => list[i] < list[j]}

InitCorrelation ==
    /\ \E numberOutputChannels \in 0 .. NumChannels, squareOutputMatrixFlag \in BOOLEAN,
          stdDev \in [Channels -> CorrelationStdDevs] :
        \E list \in AscendingChannelLists(numberOutputChannels) :
          cov = [matrix |-> [k \in 0 .. (MatrixSize(numberOutputChannels,
                                                    squareOutputMatrixFlag,
                                                    kMeanCovariance) - 1)
                               |-> CovarianceValue],
                 numberOutputChannels |-> numberOutputChannels,
                 numberInputChannels |-> NumChannels,
                 list |-> list, stdDev |-> stdDev,
                 squareOutputMatrixFlag |-> squareOutputMatrixFlag, op |-> "none"]
    /\ gProjectInfoPtr = Idle /\ call = Idle /\ chan = Idle

CallComputeCorrelationFromCovMatrix ==
    /\ cov.op = "none"
    /\ cov' = [cov EXCEPT !.matrix = ComputeCorrelationFromCovMatrix(
                                         cov.numberOutputChannels, cov.matrix,
                                         cov.numberInputChannels, cov.list, cov.stdDev,
                                         cov.squareOutputMatrixFlag),
                          !.op = "ComputeCorrelationFromCovMatrix"]
    /\ UNCHANGED <<gProjectInfoPtr, call, chan>>

NextCorrelation == CallComputeCorrelationFromCovMatrix

\* One call of ComputeCorrelationFromCovMatrix on a covariance buffer.
SpecCorrelation == InitCorrelation /\ [][NextCorrelation]_vars

\* ============================================ the covariance statistics to use
\* The project record of this machine holds, for the project and for every
\* class, the covarianceStatsToUse code and what the two setters read.
SetClassLoop(p, covarianceStatsToUse) ==
    IF \E classIndex \in Classes :
           covarianceStatsToUse # p.classNamesPtr[storageClass(classIndex)].covarianceStatsToUse
    THEN [p EXCEPT !.covarianceStatsToUse = kMixedStats]
    ELSE p

\* Whether leave-one-out statistics of the class still have to be computed.
LOONotComputed(classNames) ==
    classNames.mixingParameterCode = kComputedOptimum /\ classNames.looCovarianceValue < 0

\* SetClassCovarianceStatsToUse without the test of its argument.
SetClassCovarianceStatsToUseNoCheck(p, covarianceStatsToUse) ==
    LET classStorage == storageClass(p.currentClass)
        p1 == [p EXCEPT !.classNamesPtr[classStorage].covarianceStatsToUse = covarianceStatsToUse,
                        !.covarianceStatsToUse = covarianceStatsToUse]
        p2 == SetClassLoop(p1, covarianceStatsToUse)
    IN IF covarianceStatsToUse = kLeaveOneOutStats /\ LOONotComputed(p2.classNamesPtr[classStorage])
       THEN [p2 EXCEPT !.statsUpToDate = FALSE,
                       !.classNamesPtr[classStorage].statsUpToDate = FALSE]
       ELSE p2

SetClassCovarianceStatsToUse(p, covarianceStatsToUse) ==
    IF covarianceStatsToUse <= 0 \/ covarianceStatsToUse > kEnhancedStats THEN p
    ELSE LET classStorage == storageClass(p.currentClass)
             p1 == [p EXCEPT !.classNamesPtr[classStorage].covarianceStatsToUse = covarianceStatsToUse,
                             !.covarianceStatsToUse = covarianceStatsToUse]
             p2 == SetClassLoop(p1, covarianceStatsToUse)
         IN IF covarianceStatsToUse = kLeaveOneOutStats /\ LOONotComputed(p2.classNamesPtr[classStorage])
            THEN [p2 EXCEPT !.statsUpToDate = FALSE,
                            !.classNamesPtr[classStorage].statsUpToDate = FALSE]
            ELSE p2

\* The class loop of SetProjectCovarianceStatsToUse, for one class: the
\* setting saved after a mixed setting was replaced, and the setting the
\* class has after the input setting was stored.
SavedSetting(classNames) ==
    IF classNames.covarianceStatsToUse = kMixedStats
        THEN kOriginalStats ELSE classNames.covarianceStatsToUse

RequestedSetting(classNames, covarianceStatsToUse) ==
    IF covarianceStatsToUse # kMixedStats THEN covarianceStatsToUse
                                          ELSE SavedSetting(classNames)

\* The setting the class is left with.  (The project setting written inside
\* the loop for a class with training pixels is overwritten after the loop.)
SetProjectClassSetting(classNames, covarianceStatsToUse) ==
    LET savedCovarianceStatsToUse == SavedSetting(classNames)
        requested == RequestedSetting(classNames, covarianceStatsToUse)
    IN IF requested = kEnhancedStats /\ ~classNames.modifiedStatsFlag
       THEN IF savedCovarianceStatsToUse = kEnhancedStats
                THEN kOriginalStats ELSE savedCovarianceStatsToUse
       ELSE requested

\* The class loop; r = [p, projectCovarianceStatsToUse, enhancedStatsExistFlag].
RECURSIVE SetProjectLoop(_, _, _)
SetProjectLoop(r, covarianceStatsToUse, classIndex) ==
    IF classIndex >= NumClasses THEN r
    ELSE LET classStorage == storageClass(classIndex)
             classNames == r.p.classNamesPtr[classStorage]
             setting == SetProjectClassSetting(classNames, covarianceStatsToUse)
             stale == /\ RequestedSetting(classNames, covarianceStatsToUse) = kLeaveOneOutStats
                      /\ LOONotComputed(classNames)
             p1 == [r.p EXCEPT
                       !.classNamesPtr[classStorage].covarianceStatsToUse = setting,
                       !.classNamesPtr[classStorage].statsUpToDate =
                           IF stale THEN FALSE ELSE @,
                       !.statsUpToDate = IF stale THEN FALSE ELSE @,
                       !.numberCommonCovarianceClasses = IF stale THEN 0 ELSE @]
         IN SetProjectLoop(
                [p |-> p1,
                 projectCovarianceStatsToUse |->
                     IF classIndex = 0 THEN setting
                     ELSE IF r.projectCovarianceStatsToUse # kMixedStats
                              /\ r.projectCovarianceStatsToUse # setting
                          THEN kMixedStats
                          ELSE r.projectCovarianceStatsToUse,
                 enhancedStatsExistFlag |->
                     r.enhancedStatsExistFlag \/ classNames.modifiedStatsFlag],
                covarianceStatsToUse, classIndex + 1)

SetProjectCovarianceStatsToUse(p, covarianceStatsToUse) ==
    LET r == SetProjectLoop([p |-> p, projectCovarianceStatsToUse |-> kOriginalStats,
                             enhancedStatsExistFlag |-> FALSE],
                            covarianceStatsToUse, 0)
    IN [r.p EXCEPT !.covarianceStatsToUse =
                       IF covarianceStatsToUse = kEnhancedStats /\ ~r.enhancedStatsExistFlag
                           THEN kOriginalStats ELSE r.projectCovarianceStatsToUse,
                   !.enhancedStatsExistFlag = r.enhancedStatsExistFlag]

\* The codes a caller passes: the four settings and 0.
StatsToUseCodes == 0 .. kMixedStats

InitStatsToUse ==
    /\ \E modifiedStatsFlag \in [Classes -> BOOLEAN],
          looCovarianceValue \in [Classes -> {-1, 1}] :
          gProjectInfoPtr =
              [covarianceStatsToUse |-> kOriginalStats, statsUpToDate |-> TRUE,
               numberCommonCovarianceClasses |-> 1, enhancedStatsExistFlag |-> FALSE,
               currentClass |-> 0,
               classNamesPtr |-> [classStorage \in Classes |->
                   [covarianceStatsToUse |-> kOriginalStats,
                    modifiedStatsFlag |-> modifiedStatsFlag[classStorage],
                    mixingParameterCode |-> kComputedOptimum,
                    looCovarianceValue |-> looCovarianceValue[classStorage],
                    statsUpToDate |-> TRUE]]]
    /\ call = [op |-> "none", arg |-> 0]
    /\ chan = Idle /\ cov = Idle

\* The class selected in the statistics window is the current class.
CallSetClassCovarianceStatsToUse ==
    /\ \E currentClass \in Classes, covarianceStatsToUse \in StatsToUseCodes :
          /\ gProjectInfoPtr' = SetClassCovarianceStatsToUse(
                                    [gProjectInfoPtr EXCEPT !.currentClass = currentClass],
                                    covarianceStatsToUse)
          /\ call' = [op |-> "SetClassCovarianceStatsToUse", arg |-> covarianceStatsToUse]
    /\ UNCHANGED <<chan, cov>>

CallSetProjectCovarianceStatsToUse ==
    /\ \E covarianceStatsToUse \in StatsToUseCodes :
          /\ gProjectInfoPtr' = SetProjectCovarianceStatsToUse(gProjectInfoPtr,
                                                               covarianceStatsToUse)
          /\ call' = [op |-> "SetProjectCovarianceStatsToUse", arg |-> covarianceStatsToUse]
    /\ UNCHANGED <<chan, cov>>

NextStatsToUse == CallSetClassCovarianceStatsToUse \/ CallSetProjectCovarianceStatsToUse

\* Any sequence of calls of the two setters.
SpecStatsToUse == InitStatsToUse /\ [][NextStatsToUse]_vars

\* ================================================ the class covariance matrix
\* GetClassCovarianceMatrix and GetTransformedClassCovarianceMatrix for
\* NumChannels output channels.  The caller's covariance buffer has room for
\* the square shape; the triangular shape and the variance vector use its
\* first entries.  steps lists, in call order, the routines the buffer was
\* handed to.
BufferOffsets == 0 .. (NumChannels * NumChannels - 1)

\* Row and column of an offset of the buffer in the given shape.
RowOf(k, squareMatrixFlag) ==
    IF squareMatrixFlag THEN k \div NumChannels
    ELSE IF k >= (NumChannels * (NumChannels + 1)) \div 2 THEN -1
    ELSE CHOOSE i \in Channels : (i * (i + 1)) \div 2 <= k /\ k < ((i + 1) * (i + 2)) \div 2
ColumnOf(k, squareMatrixFlag) ==
    IF squareMatrixFlag THEN k % NumChannels
    ELSE LET i == RowOf(k, squareMatrixFlag) IN IF i < 0 THEN -1 ELSE k - (i * (i + 1)) \div 2

\* The lower triangle of a covariance matrix a routine outside this file
\* derives: "plain" has different variances and covariances, "equal" has all
\* entries equal, "zeroVariance" has a variance of 0.  The stored enhanced
\* matrix of a class has the same form with other values.
MatrixEntry(template, i, j) ==
    IF template \in {"equal", "enhanced equal"} THEN (IF template = "equal" THEN 1 ELSE 3)
    ELSE IF i # j THEN 1
    ELSE IF template \in {"zeroVariance", "enhanced zeroVariance"} /\ i = 0 THEN 0
    ELSE IF template \in {"plain", "zeroVariance"} THEN 2
    ELSE 3

EnhancedTemplate(template) ==
    IF template = "equal" THEN "enhanced equal"
    ELSE IF template = "zeroVariance" THEN "enhanced zeroVariance"
    ELSE "enhanced plain"

\* A routine outside this file writes the lower triangle in the shape asked
\* for; the entries of the buffer outside it keep their values.
WriteLowerTriangle(matrix, template, squareMatrixFlag) ==
    [k \in BufferOffsets |->
        LET i == RowOf(k, squareMatrixFlag)
            j == ColumnOf(k, squareMatrixFlag)
        IN IF i >= 0 /\ j <= i THEN MatrixEntry(template, i, j) ELSE matrix[k]]

\* ReduceInputMatrix of the enhanced covariance of the class.
ReduceInputMatrix(matrix, template, squareOutputMatrixFlag) ==
    WriteLowerTriangle(matrix, EnhancedTemplate(template), squareOutputMatrixFlag)

\* ComputeCovarianceMatrix: the covariance of the class in the shape asked for.
ComputeCovarianceMatrix(matrix, template, squareOutputMatrixFlag) ==
    LET lower == WriteLowerTriangle(matrix, template, squareOutputMatrixFlag) IN
    IF squareOutputMatrixFlag THEN CopyLowerToUpperSquareMatrix(NumChannels, lower) ELSE lower

\* GetLOOCovariance: the class covariance blended with the common covariance.
GetLOOCovariance(matrix, squareOutputMatrixFlag) ==
    [k \in BufferOffsets |->
        IF RowOf(k, squareOutputMatrixFlag) >= 0
               /\ RowOf(k, squareOutputMatrixFlag) = ColumnOf(k, squareOutputMatrixFlag)
            THEN matrix[k] + 4 ELSE matrix[k]]

\* TransformSymmetricMatrix with the eigenvectors of the identity: the matrix
\* handed over in square shape comes back in the shape asked for.
TransformSymmetricMatrix(matrix, squareOutputMatrixFlag) ==
    IF squareOutputMatrixFlag THEN matrix
    ELSE [k \in BufferOffsets |->
             LET i == RowOf(k, FALSE)
                 j == ColumnOf(k, FALSE)
             IN IF i >= 0 THEN matrix[i * NumChannels + j] ELSE matrix[k]]

\* Channel statistics: the sums of the class (mean and standardDev not yet
\* derived) and the stored enhanced statistics.
ClassSumStats ==
    [channel \in Channels |->
        [sum |-> channel + 1, standardDev |-> -1, minimum |-> 1, maximum |-> 2]]
EnhancedChannelStats ==
    [channel \in Channels |->
        [sum |-> 5, standardDev |-> 1, minimum |-> 1, maximum |-> 2]]
ClassStdDev == [channel \in Channels |-> 1]

\* GetClassChannelStatistics; r = [ret, stats].
GetClassChannelStatistics(p, numberOutputChannels, classChannelStats, classNumber) ==
    LET classNames == p.classNamesPtr[storageClass(classNumber)] IN
    IF numberOutputChannels <= 0 THEN [ret |-> FALSE, stats |-> classChannelStats]
    ELSE IF classNames.numberOfTrainFields <= 0
    THEN [ret |-> FALSE, stats |-> classChannelStats]
    ELSE IF classNames.covarianceStatsToUse = kEnhancedStats /\ classNames.modifiedStatsFlag
    THEN [ret |-> TRUE, stats |-> EnhancedChannelStats]
    ELSE [ret |-> TRUE, stats |-> ClassSumStats]

\* GetClassSumsSquares; r = [ret, stats, matrix].  The memory is zeroed
\* before the class sums or the sums of the fields are added.
GetClassSumsSquares(p, numberOutputChannels, classChannelStats, classSumSquares, classNumber) ==
    LET classNames == p.classNamesPtr[storageClass(classNumber)]
        zeroed == [k \in BufferOffsets |-> 0]
        sums == [k \in BufferOffsets |-> SumSquaresValue]
    IN IF numberOutputChannels <= 0
       THEN [ret |-> FALSE, stats |-> classChannelStats, matrix |-> classSumSquares]
       ELSE IF classNames.numberOfTrainFields <= 0
       THEN [ret |-> FALSE, stats |-> classChannelStats, matrix |-> classSumSquares]
       ELSE IF p.keepClassStatsOnlyFlag /\ classNames.numberStatisticsPixels <= 0
       THEN [ret |-> FALSE, stats |-> ZeroedChannelStats, matrix |-> zeroed]
       ELSE [ret |-> TRUE, stats |-> ClassSumStats, matrix |-> sums]

\* The leave-one-out part of GetClassCovarianceMatrix; r = [p, matrix, steps].
\* looClasses is numberCommonCovarianceClasses as UpdateProjectLOOStats
\* leaves it.
LeaveOneOutCovariance(r, squareOutputMatrixFlag, looClasses) ==
    LET p1 == IF r.p.useCommonCovarianceInLOOCFlag /\ r.p.numberCommonCovarianceClasses = 0
                  THEN [r.p EXCEPT !.numberCommonCovarianceClasses = looClasses]
                  ELSE r.p
        p2 == IF p1.useCommonCovarianceInLOOCFlag /\ ~p1.localCommonCovarianceLoadedFlag
                  THEN [p1 EXCEPT !.localCommonCovarianceLoadedFlag = TRUE]
                  ELSE p1
    IN IF p2.commonCovarianceLoaded
              /\ (~p2.useCommonCovarianceInLOOCFlag \/ p2.numberCommonCovarianceClasses > 0)
       THEN [p |-> p2, matrix |-> GetLOOCovariance(r.matrix, squareOutputMatrixFlag),
             steps |-> Append(r.steps, "GetLOOCovariance")]
       ELSE [p |-> p2, matrix |-> r.matrix, steps |-> r.steps]

\* The branch test of GetClassCovarianceMatrix without modifiedStatsFlag.
UseEnhancedStatsAlways(classNames, covarianceStatsToUse) ==
    covarianceStatsToUse = kEnhancedStats

\* The branch test of GetClassCovarianceMatrix.
UseEnhancedStats(classNames, covarianceStatsToUse) ==
    covarianceStatsToUse = kEnhancedStats /\ classNames.modifiedStatsFlag

\* The zero variance pass at the end of GetClassCovarianceMatrix and in
\* CheckMatrix; r = [p, stats, matrix, steps, continueFlag].  messageOk is
\* what ListClassInformationMessage returns.
ZeroVariancePass(r, squareOutputMatrixFlag, outputStatisticsCode, messageOk) ==
    LET z == ResetZeroVariances(r.matrix, squareOutputMatrixFlag, outputStatisticsCode,
                                NumChannels, r.p.zeroVarianceFactor)
    IN [r EXCEPT !.matrix = z.matrix,
                 !.steps = Append(@, "ResetZeroVariances"),
                 !.continueFlag = IF z.ret THEN messageOk ELSE @]

GetClassCovarianceMatrix(p, numberOutputChannels, classChannelStats, classCovariance, statClassNumber, squareOutputMatrixFlag, outputStatisticsCode, covarianceStatsToUse, looClasses, messageOk) ==
    LET classNames == p.classNamesPtr[storageClass(statClassNumber)]
        untouched == [p |-> p, stats |-> classChannelStats, matrix |-> classCovariance,
                      steps |-> <<>>, continueFlag |-> TRUE]
        enhanced ==
            LET g == GetClassChannelStatistics(p, numberOutputChannels, classChannelStats,
                                               statClassNumber)
                reduced == ReduceInputMatrix(classCovariance, classNames.template,
                                             squareOutputMatrixFlag)
            IN [p |-> p, stats |-> g.stats,
                matrix |-> IF squareOutputMatrixFlag
                               THEN CopyLowerToUpperSquareMatrix(NumChannels, reduced)
                               ELSE reduced,
                steps |-> IF squareOutputMatrixFlag
                              THEN <<"GetClassChannelStatistics", "ReduceInputMatrix",
                                     "CopyLowerToUpperSquareMatrix">>
                              ELSE <<"GetClassChannelStatistics", "ReduceInputMatrix">>,
                continueFlag |-> g.ret]
        original ==
            LET g == GetClassSumsSquares(p, numberOutputChannels, classChannelStats,
                                         classCovariance, statClassNumber)
                numberPixels == classNames.numberStatisticsPixels
                base == [p |-> p, stats |-> g.stats, matrix |-> g.matrix,
                         steps |-> <<"GetClassSumsSquares">>, continueFlag |-> g.ret]
            IN IF ~g.ret THEN base
               ELSE IF outputStatisticsCode = kMeanCovariance
               THEN LET computed ==
                            [base EXCEPT
                                !.stats = ComputeMeanStdDevVector(g.stats, ClassStdDev),
                                !.matrix = ComputeCovarianceMatrix(g.matrix, classNames.template,
                                                                   squareOutputMatrixFlag),
                                !.steps = Append(@, "ComputeCovarianceMatrix")]
                    IN IF covarianceStatsToUse = kLeaveOneOutStats
                       THEN LET loo == LeaveOneOutCovariance(computed, squareOutputMatrixFlag,
                                                             looClasses)
                            IN [computed EXCEPT !.p = loo.p, !.matrix = loo.matrix,
                                                !.steps = loo.steps]
                       ELSE computed
               ELSE LET v == ComputeVarianceVector(g.stats,
                                 [channel \in Channels |-> g.matrix[channel]],
                                 numberOutputChannels, numberPixels, ClassStdDev)
                    IN [base EXCEPT !.stats = v.channelStats,
                                    !.matrix = [k \in BufferOffsets |->
                                        IF k \in Channels THEN v.variance[k] ELSE g.matrix[k]],
                                    !.steps = Append(@, "ComputeVarianceVector")]
    IN IF numberOutputChannels <= 0 THEN untouched
       ELSE IF outputStatisticsCode > p.statisticsCode THEN untouched
       ELSE LET r == IF UseEnhancedStats(classNames, covarianceStatsToUse)
                         THEN enhanced ELSE original
            IN IF r.continueFlag /\ outputStatisticsCode = kMeanCovariance
                      /\ p.setZeroVarianceFlag
               THEN ZeroVariancePass(r, squareOutputMatrixFlag, outputStatisticsCode, messageOk)
               ELSE r

\* CheckMatrix with useListOneMessagePerClassFlag set; r as above.
CheckMatrix(r, squareOutputMatrixFlag, statisticsCode, statClassNumber, messageOk) ==
    LET classStorage == storageClass(statClassNumber)
        r0 == IF ~r.p.gListOnlyOneMessagePerClassFlag
                  THEN [r EXCEPT !.p.classNamesPtr[classStorage].listMessageFlag = TRUE]
                  ELSE r
        r1 == [r0 EXCEPT !.continueFlag = TRUE]
        z == ResetZeroVariances(r1.matrix, squareOutputMatrixFlag, statisticsCode,
                                NumChannels, r1.p.zeroVarianceFactor)
        r2 == IF r1.p.setZeroVarianceFlag
                  THEN ZeroVariancePass(r1, squareOutputMatrixFlag, statisticsCode, messageOk)
                  ELSE r1
        e == ResetForAllVariancesEqual(r2.matrix, squareOutputMatrixFlag, statisticsCode,
                                       NumChannels)
        r3 == IF r2.continueFlag
                  THEN [r2 EXCEPT !.matrix = e.matrix,
                                  !.steps = IF e.ret /\ squareOutputMatrixFlag
                                      THEN @ \o <<"ResetForAllVariancesEqual",
                                                  "CopyLowerToUpperSquareMatrix">>
                                      ELSE Append(@, "ResetForAllVariancesEqual"),
                                  !.continueFlag = IF e.ret THEN messageOk ELSE @]
                  ELSE r2
        messageListedFlag == (r1.p.setZeroVarianceFlag /\ z.ret) \/ (r2.continueFlag /\ e.ret)
    IN IF r3.p.gListOnlyOneMessagePerClassFlag /\ messageListedFlag
       THEN [r3 EXCEPT !.p.classNamesPtr[classStorage].listMessageFlag = FALSE]
       ELSE r3

\* GetTransformedClassCovarianceMatrix leaving setZeroVarianceFlag as it is
\* for the inner call.
GetTransformedClassCovarianceMatrixKeepFlag(p, numberOutputChannels, classChannelStats, classCovariance, statClassNumber, squareOutputMatrixFlag, outputStatisticsCode, transformFlag, looClasses, messageOk) ==
    LET lOutputMatrixFlag == IF transformFlag THEN TRUE ELSE squareOutputMatrixFlag
        classStorage == storageClass(statClassNumber)
        r == GetClassCovarianceMatrix(p,
                 numberOutputChannels, classChannelStats, classCovariance, statClassNumber,
                 lOutputMatrixFlag, outputStatisticsCode,
                 p.classNamesPtr[classStorage].covarianceStatsToUse, looClasses, messageOk)
        r1 == IF transformFlag
                  THEN [r EXCEPT !.matrix = TransformSymmetricMatrix(@, squareOutputMatrixFlag),
                                 !.steps = Append(@, "TransformSymmetricMatrix")]
                  ELSE r
    IN CheckMatrix(r1, squareOutputMatrixFlag, outputStatisticsCode, statClassNumber, messageOk)

GetTransformedClassCovarianceMatrix(p, numberOutputChannels, classChannelStats, classCovariance, statClassNumber, squareOutputMatrixFlag, outputStatisticsCode, transformFlag, looClasses, messageOk) ==
    LET savedZeroVarianceFlag == p.setZeroVarianceFlag
        lOutputMatrixFlag == IF transformFlag THEN TRUE ELSE squareOutputMatrixFlag
        classStorage == storageClass(statClassNumber)
        r == GetClassCovarianceMatrix([p EXCEPT !.setZeroVarianceFlag = FALSE],
                 numberOutputChannels, classChannelStats, classCovariance, statClassNumber,
                 lOutputMatrixFlag, outputStatisticsCode,
                 p.classNamesPtr[classStorage].covarianceStatsToUse, looClasses, messageOk)
        r1 == IF transformFlag
                  THEN [r EXCEPT !.matrix = TransformSymmetricMatrix(@, squareOutputMatrixFlag),
                                 !.steps = Append(@, "TransformSymmetricMatrix")]
                  ELSE r
        r2 == [r1 EXCEPT !.p.setZeroVarianceFlag = savedZeroVarianceFlag]
    IN CheckMatrix(r2, squareOutputMatrixFlag, outputStatisticsCode, statClassNumber, messageOk)

\* What the caller's buffers hold before the call.
CallerMatrix == [k \in BufferOffsets |-> 9]

ClassTemplates == {"plain", "equal", "zeroVariance"}

\* The class the calls are about; the other classes have original statistics.
DefaultClassNames ==
    [covarianceStatsToUse |-> kOriginalStats, modifiedStatsFlag |-> FALSE,
     numberOfTrainFields |-> 1, numberStatisticsPixels |-> 2, template |-> "plain",
     listMessageFlag |-> FALSE]

InitClassCov ==
    /\ \E statisticsCode \in {kMeanStdDevOnly, kMeanCovariance},
          flags \in [{"setZeroVarianceFlag", "keepClassStatsOnlyFlag",
                      "useCommonCovarianceInLOOCFlag", "commonCovarianceLoaded",
                      "gListOnlyOneMessagePerClassFlag", "modifiedStatsFlag"} -> BOOLEAN],
          numberCommonCovarianceClasses \in {0, 1},
          covarianceStatsToUse \in kOriginalStats .. kEnhancedStats,
          numberOfTrainFields \in {0, 1}, numberStatisticsPixels \in {0, 2},
          template \in ClassTemplates :
          gProjectInfoPtr =
              [statisticsCode |-> statisticsCode,
               setZeroVarianceFlag |-> flags["setZeroVarianceFlag"],
               zeroVarianceFactor |-> 2,
               keepClassStatsOnlyFlag |-> flags["keepClassStatsOnlyFlag"],
               useCommonCovarianceInLOOCFlag |-> flags["useCommonCovarianceInLOOCFlag"],
               commonCovarianceLoaded |-> flags["commonCovarianceLoaded"],
               localCommonCovarianceLoadedFlag |-> FALSE,
               gListOnlyOneMessagePerClassFlag |-> flags["gListOnlyOneMessagePerClassFlag"],
               numberCommonCovarianceClasses |-> numberCommonCovarianceClasses,
               classNamesPtr |-> [classStorage \in Classes |->
                   IF classStorage = 0
                   THEN [covarianceStatsToUse |-> covarianceStatsToUse,
                         modifiedStatsFlag |-> flags["modifiedStatsFlag"],
                         numberOfTrainFields |-> numberOfTrainFields,
                         numberStatisticsPixels |-> numberStatisticsPixels,
                         template |-> template, listMessageFlag |-> FALSE]
                   ELSE DefaultClassNames]]
    /\ cov = [op |-> "none", before |-> gProjectInfoPtr, steps |-> <<>>,
              stats |-> ComputedChannelStats, matrix |-> CallerMatrix,
              statClassNumber |-> 0, numberOutputChannels |-> 0,
              squareOutputMatrixFlag |-> FALSE, outputStatisticsCode |-> kMeanStdDevOnly,
              covarianceStatsToUse |-> kOriginalStats, looClasses |-> 0, messageOk |-> TRUE]
    /\ call = Idle /\ chan = Idle

ClassCovDone(op, r, statClassNumber, numberOutputChannels, squareOutputMatrixFlag, outputStatisticsCode, covarianceStatsToUse, looClasses, messageOk) ==
    /\ cov.op = "none"
    /\ gProjectInfoPtr' = r.p
    /\ cov' = [op |-> op, before |-> gProjectInfoPtr, steps |-> r.steps, stats |-> r.stats,
               matrix |-> r.matrix, statClassNumber |-> statClassNumber,
               numberOutputChannels |-> numberOutputChannels,
               squareOutputMatrixFlag |-> squareOutputMatrixFlag,
               outputStatisticsCode |-> outputStatisticsCode,
               covarianceStatsToUse |-> covarianceStatsToUse,
               looClasses |-> looClasses, messageOk |-> messageOk]
    /\ UNCHANGED <<call, chan>>

\* The calls are about the class configured in InitClassCov.
StatClassNumbers == {0}

\* What UpdateProjectLOOStats can leave in numberCommonCovarianceClasses; it
\* is called for leave-one-out statistics with a common covariance that has
\* not been computed.
LOOClassCounts(covarianceStatsToUse) ==
    IF /\ covarianceStatsToUse = kLeaveOneOutStats
       /\ gProjectInfoPtr.useCommonCovarianceInLOOCFlag
       /\ gProjectInfoPtr.numberCommonCovarianceClasses = 0
    THEN {0, 1} ELSE {0}

\* What ListClassInformationMessage can return; the result is used only
\* after the message of the zero variance pass.
MessageResults == IF gProjectInfoPtr.setZeroVarianceFlag THEN BOOLEAN ELSE {TRUE}

CallGetClassCovarianceMatrix ==
    \E statClassNumber \in StatClassNumbers, numberOutputChannels \in {0, NumChannels},
       squareOutputMatrixFlag \in BOOLEAN,
       outputStatisticsCode \in {kMeanStdDevOnly, kMeanCovariance},
       covarianceStatsToUse \in kOriginalStats .. kEnhancedStats :
      \E looClasses \in LOOClassCounts(covarianceStatsToUse), messageOk \in MessageResults :
        ClassCovDone("GetClassCovarianceMatrix",
            GetClassCovarianceMatrix(gProjectInfoPtr, numberOutputChannels, cov.stats,
                cov.matrix, statClassNumber, squareOutputMatrixFlag, outputStatisticsCode,
                covarianceStatsToUse, looClasses, messageOk),
            statClassNumber, numberOutputChannels, squareOutputMatrixFlag,
            outputStatisticsCode, covarianceStatsToUse, looClasses, messageOk)

CallGetTransformedClassCovarianceMatrix ==
    \E statClassNumber \in StatClassNumbers, numberOutputChannels \in {0, NumChannels},
       squareOutputMatrixFlag \in BOOLEAN,
       outputStatisticsCode \in {kMeanStdDevOnly, kMeanCovariance},
       transformFlag \in BOOLEAN :
      \E looClasses \in LOOClassCounts(
              gProjectInfoPtr.classNamesPtr[storageClass(statClassNumber)].covarianceStatsToUse),
         messageOk \in MessageResults :
        ClassCovDone(IF transformFlag THEN "GetTransformedClassCovarianceMatrix, transformed"
                                      ELSE "GetTransformedClassCovarianceMatrix",
            GetTransformedClassCovarianceMatrix(gProjectInfoPtr, numberOutputChannels,
                cov.stats, cov.matrix, statClassNumber, squareOutputMatrixFlag,
                outputStatisticsCode, transformFlag, looClasses, messageOk),
            statClassNumber, numberOutputChannels, squareOutputMatrixFlag,
            outputStatisticsCode,
            gProjectInfoPtr.classNamesPtr[storageClass(statClassNumber)].covarianceStatsToUse,
            looClasses, messageOk)

NextClassCov == CallGetClassCovarianceMatrix \/ CallGetTransformedClassCovarianceMatrix

\* One request for the covariance matrix of a class.
SpecClassCov == InitClassCov /\ [][NextClassCov]_vars

\* ------------------------------------------------ class and field numbers
\* The entry points called with a class or field number that may be past the
\* last class or field.  The project carries the records of the update
\* routines and the settings the Get routines read.
EntryProject(kind, cls, keep, covarianceStatsToUse, modifiedStatsFlag) ==
    LET u == NewProject(kind, cls, keep) IN
    [fieldIdentPtr |-> u.fieldIdentPtr,
     classNamesPtr |->
        [c \in Classes |->
            [firstFieldNumber |-> u.classNamesPtr[c].firstFieldNumber,
             numberOfTrainFields |-> u.classNamesPtr[c].numberOfTrainFields,
             numberStatisticsPixels |-> u.classNamesPtr[c].numberStatisticsPixels,
             statsUpToDate |-> u.classNamesPtr[c].statsUpToDate,
             covarianceStatsToUse |-> covarianceStatsToUse,
             modifiedStatsFlag |-> modifiedStatsFlag,
             template |-> "plain",
             listMessageFlag |-> FALSE]],
     keepClassStatsOnlyFlag |-> u.keepClassStatsOnlyFlag,
     statsUpToDate |-> u.statsUpToDate,
     maskHandle |-> u.maskHandle,
     fieldChanStatsPtr |-> u.fieldChanStatsPtr,
     classChanStatsPtr |-> u.classChanStatsPtr,
     scanCode |-> u.scanCode,
     statisticsCode |-> kMeanCovariance,
     setZeroVarianceFlag |-> FALSE,
     zeroVarianceFactor |-> 2,
     useCommonCovarianceInLOOCFlag |-> FALSE,
     commonCovarianceLoaded |-> FALSE,
     localCommonCovarianceLoadedFlag |-> FALSE,
     gListOnlyOneMessagePerClassFlag |-> TRUE,
     numberCommonCovarianceClasses |-> 0]

\* Class and field numbers a caller passes: the valid ones and the first
\* one past the end (numberStatisticsClasses, numberStorageFields).
ClassNumbers == 0 .. NumClasses
FieldNumbers == 0 .. NumFields

\* gProjectInfoPtr->storageClass[classNumber] read without a test of
\* classNumber.  Past the end of the array the read is undefined: it yields
\* the storage index of some class, or the access faults.
StorageClassRead(classNumber) ==
    IF classNumber < NumClasses
    THEN {[fault |-> FALSE, classStorage |-> storageClass(classNumber)]}
    ELSE {[fault |-> FALSE, classStorage |-> s] : s \in Classes}
             \cup {[fault |-> TRUE, classStorage |-> 0]}

InitEntry ==
    /\ \E kind \in [Fields -> FieldKinds], cls \in ClassOfFields, keep \in BOOLEAN,
          covarianceStatsToUse \in {kOriginalStats, kEnhancedStats},
          modifiedStatsFlag \in BOOLEAN :
          gProjectInfoPtr = EntryProject(kind, cls, keep, covarianceStatsToUse,
                                         modifiedStatsFlag)
    /\ call = [op |-> "none", number |-> 0, outOfRange |-> FALSE, notDone |-> FALSE,
               recordRead |-> FALSE, fault |-> FALSE, before |-> gProjectInfoPtr,
               stats |-> ComputedChannelStats, matrix |-> CallerMatrix]
    /\ chan = Idle /\ cov = Idle

\* One call returned (or faulted).  notDone: the routine returned its
\* not-done value (a routine without a value: it returned); recordRead: a
\* class or field record was read.
EntryDone(op, number, limit, p, notDone, recordRead, stats, matrix, fault) ==
    /\ call.op = "none"
    /\ gProjectInfoPtr' = p
    /\ call' = [op |-> op, number |-> number, outOfRange |-> number >= limit,
                notDone |-> notDone, recordRead |-> recordRead, fault |-> fault,
                before |-> gProjectInfoPtr, stats |-> stats, matrix |-> matrix]
    /\ UNCHANGED <<chan, cov>>

EntryFault(op, number) ==
    EntryDone(op, number, NumClasses, gProjectInfoPtr, FALSE, FALSE, call.stats,
              call.matrix, TRUE)

EntryFinishClassStatsUpdate ==
    \E classNumber \in ClassNumbers :
        LET r == FinishClassStatsUpdate(gProjectInfoPtr, classNumber) IN
        EntryDone("FinishClassStatsUpdate", classNumber, NumClasses, r.p, ~r.ret,
                  classNumber < NumClasses, call.stats, call.matrix, FALSE)

EntryClearClassStatisticsMemory ==
    \E classNumber \in ClassNumbers :
        EntryDone("ClearClassStatisticsMemory", classNumber, NumClasses,
                  ClearClassStatisticsMemory(gProjectInfoPtr, classNumber), TRUE,
                  classNumber < NumClasses, call.stats, call.matrix, FALSE)

EntryClearFieldStatisticsMemory ==
    \E fieldNumber \in FieldNumbers :
        EntryDone("ClearFieldStatisticsMemory", fieldNumber, NumFields,
                  ClearFieldStatisticsMemory(gProjectInfoPtr, fieldNumber), TRUE,
                  fieldNumber < NumFields, call.stats, call.matrix, FALSE)

EntryUpdateFieldAreaStats ==
    \E fieldNumber \in FieldNumbers, scan \in {1, 0, -1} :
        LET r == UpdateFieldAreaStats(gProjectInfoPtr, fieldNumber, scan) IN
        EntryDone("UpdateFieldAreaStats", fieldNumber, NumFields, r.p, r.ret = 0,
                  fieldNumber < NumFields, call.stats, call.matrix, FALSE)

\* The routines below read storageClass[classNumber] first and go on with
\* the class stored there.
EntryCheckIfClassMaskStatsUpToDate ==
    \E classNumber \in ClassNumbers :
      \E read \in StorageClassRead(classNumber) :
        IF read.fault THEN EntryFault("CheckIfClassMaskStatsUpToDate", classNumber)
        ELSE EntryDone("CheckIfClassMaskStatsUpToDate", classNumber, NumClasses,
                       gProjectInfoPtr,
                       ~CheckIfClassMaskStatsUpToDate(gProjectInfoPtr, read.classStorage),
                       TRUE, call.stats, call.matrix, FALSE)

EntryUpdateClassAreaStats ==
    \E classNumber \in ClassNumbers :
      \E read \in StorageClassRead(classNumber) :
        IF read.fault THEN EntryFault("UpdateClassAreaStats", classNumber)
        ELSE \E scan \in {ScanOk}
                           \cup ScanFails(FieldsOfClass(gProjectInfoPtr, read.classStorage)) :
               LET r == UpdateClassAreaStats(gProjectInfoPtr, read.classStorage, scan) IN
               EntryDone("UpdateClassAreaStats", classNumber, NumClasses, r.p, r.ret = 0,
                         TRUE, call.stats, call.matrix, FALSE)

EntryGetClassChannelStatistics ==
    \E classNumber \in ClassNumbers :
      \E read \in StorageClassRead(classNumber) :
        IF read.fault THEN EntryFault("GetClassChannelStatistics", classNumber)
        ELSE LET r == GetClassChannelStatistics(gProjectInfoPtr, NumChannels, call.stats,
                                                read.classStorage)
             IN EntryDone("GetClassChannelStatistics", classNumber, NumClasses,
                          gProjectInfoPtr, ~r.ret, TRUE, r.stats, call.matrix, FALSE)

EntryGetClassSumsSquares ==
    \E classNumber \in ClassNumbers :
      \E read \in StorageClassRead(classNumber) :
        IF read.fault THEN EntryFault("GetClassSumsSquares", classNumber)
        ELSE LET r == GetClassSumsSquares(gProjectInfoPtr, NumChannels, call.stats,
                                          call.matrix, read.classStorage)
             IN EntryDone("GetClassSumsSquares", classNumber, NumClasses,
                          gProjectInfoPtr, ~r.ret, TRUE, r.stats, r.matrix, FALSE)

EntryGetClassCovarianceMatrix ==
    \E statClassNumber \in ClassNumbers, squareOutputMatrixFlag \in BOOLEAN,
       covarianceStatsToUse \in {kOriginalStats, kEnhancedStats} :
      \E read \in StorageClassRead(statClassNumber) :
        IF read.fault THEN EntryFault("GetClassCovarianceMatrix", statClassNumber)
        ELSE LET r == GetClassCovarianceMatrix(gProjectInfoPtr, NumChannels, call.stats,
                          call.matrix, read.classStorage, squareOutputMatrixFlag,
                          kMeanCovariance, covarianceStatsToUse, 0, TRUE)
             IN EntryDone("GetClassCovarianceMatrix", statClassNumber, NumClasses, r.p,
                          TRUE, TRUE, r.stats, r.matrix, FALSE)

NextEntry ==
    \/ EntryFinishClassStatsUpdate
    \/ EntryClearClassStatisticsMemory
    \/ EntryClearFieldStatisticsMemory
    \/ EntryUpdateFieldAreaStats
    \/ EntryCheckIfClassMaskStatsUpToDate
    \/ EntryUpdateClassAreaStats
    \/ EntryGetClassChannelStatistics
    \/ EntryGetClassSumsSquares
    \/ EntryGetClassCovarianceMatrix

\* One call of an entry point with a class or field number.
SpecEntry == InitEntry /\ [][NextEntry]_vars

\* ====================================================== GetCommonCovariance
\* The classes a class list can name (statClassNumber, counted from 0).
StatClasses == 0 .. (MaxNumberClasses - 1)

UInt16(x) == x % 65536

ZeroMatrix == [c \in StatClasses |-> 0]

\* The loop state: loop = [count, covariance, called, canceled, continueFlag].
\* covariance[c] is the weight with which the covariance matrix of class c
\* has been added into the output; called lists the classes
\* GetClassCovarianceMatrix was called for; canceled is gOperationCanceledFlag.
\* cancelNow: the user cancels while GetClassCovarianceMatrix works on this class.

\* The loop body counting the class before its weight is tested.
CommonCovarianceClassCountAll(loop, statClassNumber, weightValue, cancelNow) ==
    IF weightValue > 0
    THEN LET canceled == loop.canceled \/ cancelNow IN
         [count |-> loop.count + 1,
          covariance |-> [loop.covariance EXCEPT ![statClassNumber] = @ + weightValue],
          called |-> Append(loop.called, statClassNumber),
          canceled |-> canceled,
          continueFlag |-> ~canceled]
    ELSE [loop EXCEPT !.count = @ + 1]

\* The body of the loop for one class of the list.
CommonCovarianceClass(loop, statClassNumber, weightValue, cancelNow) ==
    IF weightValue > 0
    THEN LET canceled == loop.canceled \/ cancelNow IN
         [count |-> loop.count + 1,
          covariance |-> [loop.covariance EXCEPT ![statClassNumber] = @ + weightValue],
          called |-> Append(loop.called, statClassNumber),
          canceled |-> canceled,
          continueFlag |-> ~canceled]
    ELSE loop

\* classPtr holds class numbers counted from 1; NULL stands for all classes
\* in order.  weights[c] is GetClassWeightValue for class c; cancelAt is the
\* list position at which the user cancels (0: never).
RECURSIVE CommonCovarianceLoop(_, _, _, _, _, _)
CommonCovarianceLoop(loop, classPtr, numberClasses, weights, cancelAt, classIndex) ==
    IF classIndex >= numberClasses \/ ~loop.continueFlag THEN loop
    ELSE LET statClassNumber == IF classPtr # NULL THEN classPtr[classIndex + 1] - 1
                                                   ELSE classIndex
         IN CommonCovarianceLoop(
                CommonCovarianceClass(loop, statClassNumber, weights[statClassNumber],
                                      cancelAt = classIndex + 1),
                classPtr, numberClasses, weights, cancelAt, classIndex + 1)

\* The final assignment without the test of continueFlag.
CommitCommonCovarianceClassesAlways(numberCommonCovarianceClasses, loop, projectCommonCovarianceFlag) ==
    IF projectCommonCovarianceFlag THEN UInt16(loop.count)
                                   ELSE numberCommonCovarianceClasses

\* The value of gProjectInfoPtr->numberCommonCovarianceClasses after the
\* final "if (continueFlag && projectCommonCovarianceFlag)".
CommitCommonCovarianceClasses(numberCommonCovarianceClasses, loop, projectCommonCovarianceFlag) ==
    IF loop.continueFlag /\ projectCommonCovarianceFlag
        THEN UInt16(loop.count)
        ELSE numberCommonCovarianceClasses

\* c is the state GetCommonCovariance starts in; the result is the state it leaves.
GetCommonCovariance(c, classPtr, numberClasses, weights, cancelAt, projectCommonCovarianceFlag) ==
    LET loop == CommonCovarianceLoop(
                    [count |-> 0, covariance |-> ZeroMatrix, called |-> <<>>,
                     canceled |-> c.gOperationCanceledFlag, continueFlag |-> TRUE],
                    classPtr, numberClasses, weights, cancelAt, 0)
    IN [numberCommonCovarianceClasses |->
            CommitCommonCovarianceClasses(c.numberCommonCovarianceClasses, loop,
                                          projectCommonCovarianceFlag),
        gOperationCanceledFlag |-> loop.canceled,
        covariance |-> loop.covariance,
        called |-> loop.called,
        ret |-> loop.continueFlag]

\* The class lists: NULL with a number of classes, or different classes in
\* any order.
ClassLists ==
    {[classPtr |-> NULL, numberClasses |-> n] : n \in 0 .. MaxNumberClasses}
    \cup UNION {{[classPtr |-> L, numberClasses |-> n] :
                    L \in {M \in [1 .. n -> 1 .. MaxNumberClasses] :
                              \A i, j \in 1 .. n : i # j => M[i] # M[j]}} :
                n \in 1 .. MaxNumberClasses}

\* The project before the first call: a class list, the class weights, the
\* count an earlier computation left, and the cancel flag as the last
\* operation left it.
InitCov ==
    /\ \E list \in ClassLists, weights \in [StatClasses -> {-1, 0, 2}],
          count \in {0, MaxNumberClasses + 2}, canceled \in BOOLEAN :
          cov = [classPtr |-> list.classPtr, numberClasses |-> list.numberClasses,
                 weights |-> weights,
                 numberCommonCovarianceClasses |-> count,
                 gOperationCanceledFlag |-> canceled,
                 op |-> "none", before |-> count, canceledBefore |-> canceled,
                 projectCommonCovarianceFlag |-> FALSE,
                 covariance |-> ZeroMatrix, called |-> <<>>, ret |-> FALSE]
    /\ gProjectInfoPtr = Idle /\ call = Idle /\ chan = Idle

CallGetCommonCovariance ==
    \E cancelAt \in 0 .. cov.numberClasses, projectCommonCovarianceFlag \in BOOLEAN :
        LET r == GetCommonCovariance(cov, cov.classPtr, cov.numberClasses, cov.weights,
                                     cancelAt, projectCommonCovarianceFlag)
        IN /\ cov' = [cov EXCEPT
                         !.numberCommonCovarianceClasses = r.numberCommonCovarianceClasses,
                         !.gOperationCanceledFlag = r.gOperationCanceledFlag,
                         !.op = "GetCommonCovariance",
                         !.before = cov.numberCommonCovarianceClasses,
                         !.canceledBefore = cov.gOperationCanceledFlag,
                         !.projectCommonCovarianceFlag = projectCommonCovarianceFlag,
                         !.covariance = r.covariance,
                         !.called = r.called,
                         !.ret = r.ret]
           /\ UNCHANGED <<gProjectInfoPtr, call, chan>>

NextCov == CallGetCommonCovariance

SpecCov == InitCov /\ [][NextCov]_vars

\* =================================================================== claims
\* The training fields of class c, read from the field records.
TrainingFieldsOf(p, c) ==
    {f \in Fields : p.fieldIdentPtr[f].classStorage = c
                       /\ p.fieldIdentPtr[f].fieldType = kTrainingType}

AllLoaded(p, c) ==
    \A f \in TrainingFieldsOf(p, c) : p.fieldIdentPtr[f].loadedIntoClassStats

\* C3: FinishClassStatsUpdate (c) stores and returns TRUE only if every
\* training field of the chain of class c is loaded into the class statistics;
\* if one is not, the class's statsUpToDate is FALSE after the call.  Stated
\* for the call that ran last and for a call made in the current state.
C3_FinishOnlyIfAllLoaded ==
    /\ call.op = "FinishClassStatsUpdate" =>
          LET className == gProjectInfoPtr.classNamesPtr[call.arg] IN
          /\ className.statsUpToDate = call.ret
          /\ call.ret => AllLoaded(gProjectInfoPtr, call.arg)
          /\ ~AllLoaded(gProjectInfoPtr, call.arg) => ~className.statsUpToDate
    /\ \A c \in Classes :
          LET r == FinishClassStatsUpdate(gProjectInfoPtr, c) IN
          /\ r.p.classNamesPtr[c].statsUpToDate = r.ret
          /\ r.ret => AllLoaded(gProjectInfoPtr, c)

\* FinishClassStatsUpdate ran on a class with a loaded and an unloaded
\* training field and answered FALSE.
C3_Witness ==
    /\ call.op = "FinishClassStatsUpdate"
    /\ call.ret = FALSE
    /\ ~gProjectInfoPtr.classNamesPtr[call.arg].statsUpToDate
    /\ \E f, g \in TrainingFieldsOf(gProjectInfoPtr, call.arg) :
          /\ gProjectInfoPtr.fieldIdentPtr[f].loadedIntoClassStats
          /\ ~gProjectInfoPtr.fieldIdentPtr[g].loadedIntoClassStats

\* C4: for a class with at least one training field, all of them loaded,
\* FinishClassStatsUpdate returns TRUE and leaves statsUpToDate TRUE, whatever
\* statsUpToDate was before the call.
C4_FinishReturnsStatus ==
    \A c \in Classes :
        (gProjectInfoPtr.classNamesPtr[c].numberOfTrainFields > 0
            /\ AllLoaded(gProjectInfoPtr, c))
        => LET r == FinishClassStatsUpdate(gProjectInfoPtr, c) IN
           r.ret /\ r.p.classNamesPtr[c].statsUpToDate

RECURSIVE LoadedPixels(_, _, _)
LoadedPixels(p, c, f) ==
    IF f >= NumFields THEN 0
    ELSE (IF f \in TrainingFieldsOf(p, c) /\ p.fieldIdentPtr[f].loadedIntoClassStats
              THEN p.fieldIdentPtr[f].numberPixelsUsedForStats ELSE 0)
         + LoadedPixels(p, c, f + 1)

\* C5: with keepClassStatsOnlyFlag TRUE the class's numberStatisticsPixels is
\* the sum of numberPixelsUsedForStats over its loaded training fields, and
\* the class sums hold a loaded rectangle or polygon training field exactly
\* once and an unloaded one not at all.
C5_ClassPixelCount ==
    gProjectInfoPtr.keepClassStatsOnlyFlag =>
        \A c \in Classes :
            /\ gProjectInfoPtr.classNamesPtr[c].numberStatisticsPixels
                   = LoadedPixels(gProjectInfoPtr, c, 0)
            /\ \A f \in TrainingFieldsOf(gProjectInfoPtr, c) :
                  gProjectInfoPtr.fieldIdentPtr[f].pointType = kRectangleType =>
                      gProjectInfoPtr.classChanStatsPtr[c][f] =
                          IF gProjectInfoPtr.fieldIdentPtr[f].loadedIntoClassStats
                              THEN FieldPixels(f) ELSE 0

\* The second successful UpdateClassAreaStats on a class whose rectangle
\* fields are loaded.
C5_Witness ==
    /\ gProjectInfoPtr.keepClassStatsOnlyFlag
    /\ call.op = "UpdateClassAreaStats" /\ call.ret = 1 /\ call.n = 2
    /\ gProjectInfoPtr.scanCode = 1
    /\ gProjectInfoPtr.classNamesPtr[call.arg].numberStatisticsPixels > 1
    /\ \E f \in TrainingFieldsOf(gProjectInfoPtr, call.arg) :
          /\ gProjectInfoPtr.fieldIdentPtr[f].pointType = kRectangleType
          /\ gProjectInfoPtr.fieldIdentPtr[f].loadedIntoClassStats

\* C6: when the scan of a field is canceled, the code the routine returns is a
\* canceled code, different from 0, the code every layer returns when the scan
\* fails on I/O, and from 1, the code of a completed update.
C6_CanceledCodeDiffers ==
    (call.op \in {"UpdateFieldAreaStats", "UpdateClassAreaStats", "UpdateStatsControl"}
        /\ gProjectInfoPtr.scanCode = -1)
    => call.ret \notin {0, 1}

\* C7: when GetAreaStats did not return 1, the field's statsUpToDate is FALSE
\* when UpdateFieldAreaStats returns and the call has not marked the field
\* loaded, for a direct call and for UpdateStatsControl in field mode.
C7_FailedScanLeavesFieldStale ==
    [][(/\ \/ call'.op = "UpdateFieldAreaStats"
           \/ call'.op = "UpdateStatsControl" /\ call'.mode = kUpdateField
        /\ gProjectInfoPtr.fieldIdentPtr[call'.arg].fieldType = kTrainingType
        /\ gProjectInfoPtr.fieldIdentPtr[call'.arg].pointType = kRectangleType
        /\ gProjectInfoPtr'.scanCode \in {0, -1})
       => /\ ~gProjectInfoPtr'.fieldIdentPtr[call'.arg].statsUpToDate
          /\ gProjectInfoPtr'.fieldIdentPtr[call'.arg].loadedIntoClassStats
                => gProjectInfoPtr.fieldIdentPtr[call'.arg].loadedIntoClassStats]_vars

\* The fields of class c that are training fields and up to date.
UpToDateTrainingFields(p, c) ==
    {f \in TrainingFieldsOf(p, c) : p.fieldIdentPtr[f].statsUpToDate}

RECURSIVE SumOfFieldStats(_, _, _, _)
SumOfFieldStats(p, c, g, f) ==
    IF f >= NumFields THEN 0
    ELSE (IF f \in UpToDateTrainingFields(p, c)
              THEN p.fieldChanStatsPtr[p.fieldIdentPtr[f].trainingStatsNumber][g] ELSE 0)
         + SumOfFieldStats(p, c, g, f + 1)

CombineCalled ==
    call.op \in {"CombineFieldStatistics", "CombineFieldChannelStatistics"}

\* C8 as stated: CombineFieldChannelStatistics and CombineFieldStatistics merge
\* a field only if it is a training field, up to date, and neither a mask nor
\* a cluster field.
C8_NeverMergesMaskField ==
    CombineCalled =>
        \A i \in 1 .. Len(call.out.merged) :
            LET fieldIdent == gProjectInfoPtr.fieldIdentPtr[call.out.merged[i]] IN
            /\ fieldIdent.fieldType = kTrainingType
            /\ fieldIdent.statsUpToDate
            /\ fieldIdent.pointType \notin {kMaskType, kClusterType}

\* C8 amended: the two routines merge exactly the fields of the class's chain
\* that are training fields and up to date, each once, whatever their
\* pointType; the output is the sum of their statistics.
C8_MergesUpToDateTrainingFields ==
    CombineCalled =>
        /\ {call.out.merged[i] : i \in 1 .. Len(call.out.merged)}
               = UpToDateTrainingFields(gProjectInfoPtr, call.arg)
        /\ Len(call.out.merged) = Cardinality(UpToDateTrainingFields(gProjectInfoPtr, call.arg))
        /\ \A g \in Fields :
              call.out.sum[g] = SumOfFieldStats(gProjectInfoPtr, call.arg, g, 0)

\* CombineFieldStatistics merged an up-to-date mask field and a rectangle field.
C8_Witness ==
    /\ call.op = "CombineFieldStatistics"
    /\ Len(call.out.merged) = 2
    /\ \E i, j \in 1 .. 2 :
          /\ gProjectInfoPtr.fieldIdentPtr[call.out.merged[i]].pointType = kMaskType
          /\ gProjectInfoPtr.fieldIdentPtr[call.out.merged[j]].pointType = kRectangleType
    /\ call.out.sum = [g \in Fields |-> FieldPixels(g)]

\* C9: every operation that writes the sum of a channel statistics record
\* leaves the record's standardDev negative: AddToClassChannelStatistics with
\* initializeFlag TRUE and FALSE and the per-pixel accumulation of the mask scan.
C9_SumWriteMarksStale ==
    chan.op \in {"AddToClassChannelStatistics", "UpdateProjectMaskStats"} =>
        \A a \in chan.written : chan.out[a].standardDev < 0

\* The input record the claim names as the source of output record a.
ListedSum(a) == chan.in[chan.list[a + 1]].sum

WrittenFrom(a, inSum) ==
    chan.out[a].sum = IF chan.initializeFlag THEN inSum ELSE chan.prev[a].sum + inSum

\* C10 as stated: for any list L of numberOutputChannels different input
\* channels, in any order, output record a is written from input record L[a].
C10_ListMapsAnyOrder ==
    chan.op = "AddToClassChannelStatistics" =>
        \A a \in 0 .. (chan.numberOutputChannels - 1) :
            a \in chan.written /\ WrittenFrom(a, ListedSum(a))

Ascending(L) == \A i, j \in DOMAIN L : i < j => L[i] < L[j]

\* C10 amended: for a list L in strictly ascending channel order output record
\* a is written from input record L[a], and no other record is written; when
\* numberOutputChannels equals the number of input channels the list is not
\* read and output record a is written from input record a.
C10_ListMapsAscending ==
    chan.op = "AddToClassChannelStatistics" =>
        /\ Ascending(chan.list) =>
              /\ chan.written = 0 .. (chan.numberOutputChannels - 1)
              /\ \A a \in chan.written : WrittenFrom(a, ListedSum(a))
              /\ \A a \in Channels \ chan.written : chan.out[a] = chan.prev[a]
        /\ chan.numberOutputChannels = NumChannels =>
              \A a \in Channels : a \in chan.written /\ WrittenFrom(a, chan.in[a].sum)

\* A proper subset in ascending order that skips the first channel was added
\* onto sums written before.
C10_Witness ==
    /\ chan.op = "AddToClassChannelStatistics"
    /\ chan.numberOutputChannels = 2 /\ chan.list = <<1, 2>>
    /\ ~chan.initializeFlag /\ chan.n = 2
    /\ chan.out[0].sum = chan.prev[0].sum + chan.in[1].sum
    /\ chan.out[1].sum = chan.prev[1].sum + chan.in[2].sum
    /\ chan.prev[0].sum > 0

\* The classes of the list in list order, counted from 0.
ListedClass(i) ==
    IF cov.classPtr # NULL THEN cov.classPtr[i] - 1 ELSE i - 1

PositivePositions == {i \in 1 .. cov.numberClasses : cov.weights[ListedClass(i)] > 0}

C2_CountsPositiveWeightClasses ==
    (cov.op = "GetCommonCovariance" /\ cov.ret)
    => /\ cov.projectCommonCovarianceFlag =>
             cov.numberCommonCovarianceClasses = Cardinality(PositivePositions)
       /\ Len(cov.called) = Cardinality(PositivePositions)
       /\ \A k \in 1 .. Len(cov.called) : cov.weights[cov.called[k]] > 0
       /\ \A i \in PositivePositions : \E k \in 1 .. Len(cov.called) :
             cov.called[k] = ListedClass(i)
       /\ \A c \in StatClasses :
             cov.covariance[c] =
                 IF \E i \in PositivePositions : ListedClass(i) = c
                     THEN cov.weights[c] ELSE 0

\* A completed run over a list with a class of positive weight and classes
\* of zero and negative weight.
C2_Witness ==
    /\ cov.op = "GetCommonCovariance" /\ cov.ret /\ cov.projectCommonCovarianceFlag
    /\ cov.numberClasses = 3
    /\ cov.numberCommonCovarianceClasses = 1 /\ cov.before # 1
    /\ Len(cov.called) = 1
    /\ \E i, j \in 1 .. 3 : cov.weights[ListedClass(i)] = 0
                              /\ cov.weights[ListedClass(j)] < 0

\* The fields of the chain that CombineFieldChannelStatistics adds.
QualifyingFields == {f \in Fields : chan.fieldIdentPtr[f].fieldType = kTrainingType /\ chan.fieldIdentPtr[f].statsUpToDate}

RECURSIVE SumOfChannel(_, _)
SumOfChannel(S, channel) ==
    IF S = {} THEN 0
    ELSE LET f == CHOOSE g \in S : TRUE IN
         chan.fieldChanStatsPtr[f][channel].sum + SumOfChannel(S \ {f}, channel)

Least(S) == CHOOSE m \in S : \A n \in S : m <= n
Greatest(S) == CHOOSE m \in S : \A n \in S : m >= n

\* The input channel that output record a stands for.
MergedChannel(a) ==
    IF chan.numberOutputChannels = NumChannels THEN a ELSE chan.list[a + 1]

\* C11: CombineFieldChannelStatistics adds the first qualifying field of the
\* chain with initializeFlag TRUE and every later one with FALSE; with the
\* channels listed in ascending order (or all channels requested) every output
\* record then holds the sum of the field sums, the least field minimum and
\* the greatest field maximum of its channel over the added fields, and the
\* same output is produced for every order of the fields in the chain.
C11_MergeIsOrderIndependent ==
    (/\ chan.op = "CombineFieldChannelStatistics"
     /\ chan.numberOutputChannels > 0
     /\ (chan.numberOutputChannels = NumChannels \/ Ascending(chan.list))) =>
        /\ {chan.merged[i] : i \in DOMAIN chan.merged} = QualifyingFields
        /\ Len(chan.merged) = Cardinality(QualifyingFields)
        /\ \A i \in DOMAIN chan.flags : chan.flags[i] = (i = 1)
        /\ QualifyingFields # {} =>
              \A a \in 0 .. (chan.numberOutputChannels - 1) :
                LET channel == MergedChannel(a) IN
                /\ chan.out[a].sum = SumOfChannel(QualifyingFields, channel)
                /\ chan.out[a].minimum =
                      Least({chan.fieldChanStatsPtr[f][channel].minimum : f \in QualifyingFields})
                /\ chan.out[a].maximum =
                      Greatest({chan.fieldChanStatsPtr[f][channel].maximum : f \in QualifyingFields})
        /\ \A order \in ChainOrders :
              CombineFieldChannelVectors(LinkChain(chan, order), chan.numberOutputChannels,
                                         chan.prev, chan.list).out = chan.out

\* Two fields with different statistics were merged from a chain that starts
\* with the higher field number, over statistics computed earlier, for an
\* ascending list that skips channel 0.
C11_Witness ==
    /\ chan.op = "CombineFieldChannelStatistics"
    /\ chan.firstFieldNumber = 1 /\ chan.merged = <<1, 0>>
    /\ chan.fieldChanStatsPtr[0] # chan.fieldChanStatsPtr[1]
    /\ chan.prev = ComputedChannelStats
    /\ chan.list = <<1, 2>>
    /\ chan.out[0].sum = chan.fieldChanStatsPtr[0][1].sum + chan.fieldChanStatsPtr[1][1].sum
    /\ chan.out[0].minimum = 1 /\ chan.out[0].maximum = 3

\* The offset of entry (i, j), j <= i, of the buffer in cov.
EntryOffset(i, j) ==
    IF cov.squareMatrixFlag THEN i * cov.numberFeatures + j ELSE (i * (i + 1)) \div 2 + j

\* The offset of the i-th variance.
DiagonalOffset(i) ==
    IF cov.statisticsCode = kMeanStdDevOnly THEN i ELSE EntryOffset(i, i)

Features == 0 .. (cov.numberFeatures - 1)

\* C12: ResetZeroVariances replaces every diagonal entry that is 0 by
\* zeroVarianceFactor, leaves every other entry as it was, finds the diagonal
\* at i*(i+1)/2+i in triangular and at i*n+i in square shape (at i in a
\* variance vector), and returns TRUE exactly when an entry was replaced.
C12_ResetZeroVariances ==
    cov.op = "ResetZeroVariances" =>
        /\ \A i \in Features :
              cov.matrix[DiagonalOffset(i)] =
                  IF cov.prev[DiagonalOffset(i)] = 0 THEN cov.zeroVarianceFactor
                                                     ELSE cov.prev[DiagonalOffset(i)]
        /\ \A k \in DOMAIN cov.matrix :
              (\A i \in Features : k # DiagonalOffset(i)) => cov.matrix[k] = cov.prev[k]
        /\ cov.ret = (\E i \in Features : cov.prev[DiagonalOffset(i)] = 0)

\* A square 3 by 3 matrix with a zero and a non-zero variance and non-zero
\* covariances had its zero variance replaced.
C12_Witness ==
    /\ cov.op = "ResetZeroVariances" /\ cov.ret
    /\ cov.numberFeatures = 3 /\ cov.squareMatrixFlag
    /\ cov.statisticsCode = kMeanCovariance /\ cov.zeroVarianceFactor = 2
    /\ cov.prev[0] = 1 /\ cov.prev[4] = 0 /\ cov.matrix[4] = 2
    /\ cov.prev[3] = 0 /\ cov.matrix[3] = 0 /\ cov.prev[1] = 1

\* C13: a second ResetZeroVariances right after a first one, with a positive
\* zeroVarianceFactor, leaves the matrix as the first run left it and
\* returns FALSE.
C13_ResetZeroVariancesIdempotent ==
    (/\ cov.op = "ResetZeroVariances" /\ cov.prevOp = "ResetZeroVariances"
     /\ cov.zeroVarianceFactor > 0) =>
        cov.matrix = cov.prev /\ ~cov.ret

\* The first of the two runs replaced a zero variance of a triangular matrix.
C13_Witness ==
    /\ cov.op = "ResetZeroVariances" /\ cov.prevOp = "ResetZeroVariances"
    /\ cov.zeroVarianceFactor > 0 /\ cov.prevRet /\ ~cov.ret
    /\ cov.numberFeatures = 3 /\ ~cov.squareMatrixFlag
    /\ cov.statisticsCode = kMeanCovariance
    /\ cov.matrix[2] = 2 /\ cov.matrix = cov.prev

AllEntriesEqual ==
    \A i \in Features : \A j \in 0 .. i : cov.prev[EntryOffset(i, j)] = cov.prev[0]

\* C14: ResetForAllVariancesEqual, for more than one feature and a code with
\* covariances: when every entry of the lower triangle equals the first
\* variance v, every covariance becomes 0 (the upper triangle of a square
\* matrix too), every variance stays v and TRUE is returned; when an entry
\* differs, and for one feature or a mean-only code, the matrix is unchanged
\* and FALSE is returned.
C14_ResetForAllVariancesEqual ==
    cov.op = "ResetForAllVariancesEqual" =>
        IF cov.numberFeatures > 1 /\ cov.statisticsCode # kMeanStdDevOnly /\ AllEntriesEqual
        THEN /\ cov.ret
             /\ \A i \in Features :
                   /\ cov.matrix[EntryOffset(i, i)] = cov.prev[0]
                   /\ \A j \in 0 .. (i - 1) : cov.matrix[EntryOffset(i, j)] = 0
                   /\ cov.squareMatrixFlag =>
                         \A j \in (i + 1) .. (cov.numberFeatures - 1) :
                             cov.matrix[i * cov.numberFeatures + j] = 0
        ELSE ~cov.ret /\ cov.matrix = cov.prev

\* A square 3 by 3 matrix of ones, upper triangle included, was reduced to
\* its diagonal.
C14_Witness ==
    /\ cov.op = "ResetForAllVariancesEqual" /\ cov.ret
    /\ cov.numberFeatures = 3 /\ cov.squareMatrixFlag
    /\ \A k \in DOMAIN cov.prev : cov.prev[k] = 1
    /\ cov.matrix[0] = 1 /\ cov.matrix[4] = 1 /\ cov.matrix[8] = 1
    /\ cov.matrix[1] = 0 /\ cov.matrix[3] = 0 /\ cov.matrix[7] = 0

\* C19: ComputeVarianceVector leaves 0 in every entry of the variance vector
\* when numberPixels <= 1, numberPixels = 0 included, and the square of the
\* channel's standardDev when numberPixels > 1.
C19_VarianceVector ==
    (chan.op = "ComputeVarianceVector" /\ chan.numberChannels > 0) =>
        \A channel \in 0 .. (chan.numberChannels - 1) :
            chan.variance[channel] =
                IF chan.numberPixels <= 1 THEN 0
                ELSE chan.channelStats[channel].standardDev
                         * chan.channelStats[channel].standardDev

\* C16: after any sequence of SetClassCovarianceStatsToUse and
\* SetProjectCovarianceStatsToUse calls, with any argument, no class record
\* has covarianceStatsToUse = kMixedStats.
C16_NoClassIsMixed ==
    \A classStorage \in Classes :
        gProjectInfoPtr.classNamesPtr[classStorage].covarianceStatsToUse # kMixedStats

\* Both setters were called with kMixedStats on a project whose classes
\* have different settings.
C16_Witness ==
    /\ call.op = "SetProjectCovarianceStatsToUse" /\ call.arg = kMixedStats
    /\ gProjectInfoPtr.covarianceStatsToUse = kMixedStats
    /\ gProjectInfoPtr.classNamesPtr[0].covarianceStatsToUse = kLeaveOneOutStats
    /\ gProjectInfoPtr.classNamesPtr[1].covarianceStatsToUse = kEnhancedStats

ClassSettings ==
    {gProjectInfoPtr.classNamesPtr[classStorage].covarianceStatsToUse : classStorage \in Classes}

\* C17: after SetProjectCovarianceStatsToUse or SetClassCovarianceStatsToUse
\* returns, the project's covarianceStatsToUse is the classes' common setting
\* when all classes have the same one, and kMixedStats when two classes differ.
C17_ProjectSettingSummarizesClasses ==
    call.op # "none" =>
        IF Cardinality(ClassSettings) = 1
        THEN gProjectInfoPtr.covarianceStatsToUse \in ClassSettings
        ELSE gProjectInfoPtr.covarianceStatsToUse = kMixedStats

\* The positions of steps at which this file calls CopyLowerToUpperSquareMatrix.
MirrorSteps == {i \in DOMAIN cov.steps : cov.steps[i] = "CopyLowerToUpperSquareMatrix"}

\* C15: on every path that hands out a square covariance matrix, the mirror
\* of the lower into the upper triangle is applied once, as the last step.
\* (A routine outside this file that is given the square flag may do its own
\* mirror; the calls counted here are the ones this file makes, so the
\* formula asks for at most one of them, with no step on the matrix after it.)
C15_MirrorOnceAtEnd ==
    (/\ cov.op # "none" /\ cov.squareOutputMatrixFlag
     /\ cov.outputStatisticsCode = kMeanCovariance) =>
        /\ Cardinality(MirrorSteps) <= 1
        /\ \A i \in MirrorSteps : i = Len(cov.steps)

\* C18: GetClassCovarianceMatrix asked for kEnhancedStats for a class without
\* enhanced statistics takes the original path: its output (channel
\* statistics, covariance, steps, project) is that of the same call with
\* kOriginalStats, and no leave-one-out blending is applied.
C18_EnhancedFallsBackToOriginal ==
    (/\ cov.op = "GetClassCovarianceMatrix"
     /\ cov.covarianceStatsToUse = kEnhancedStats
     /\ ~cov.before.classNamesPtr[storageClass(cov.statClassNumber)].modifiedStatsFlag) =>
        LET r == GetClassCovarianceMatrix(cov.before, cov.numberOutputChannels,
                     ComputedChannelStats, CallerMatrix, cov.statClassNumber,
                     cov.squareOutputMatrixFlag, cov.outputStatisticsCode, kOriginalStats,
                     cov.looClasses, cov.messageOk)
        IN /\ cov.matrix = r.matrix /\ cov.stats = r.stats /\ cov.steps = r.steps
           /\ gProjectInfoPtr = r.p
           /\ \A i \in DOMAIN cov.steps :
                 cov.steps[i] \notin {"GetLOOCovariance", "ReduceInputMatrix"}

\* The fallback computed the covariance of a class whose stored setting is
\* enhanced, in square shape, and replaced a zero variance.
C18_Witness ==
    /\ cov.op = "GetClassCovarianceMatrix" /\ cov.covarianceStatsToUse = kEnhancedStats
    /\ cov.statClassNumber = 0
    /\ ~cov.before.classNamesPtr[0].modifiedStatsFlag
    /\ cov.before.classNamesPtr[0].covarianceStatsToUse = kEnhancedStats
    /\ cov.squareOutputMatrixFlag
    /\ cov.steps = <<"GetClassSumsSquares", "ComputeCovarianceMatrix", "ResetZeroVariances">>
    /\ cov.matrix[0] = 2 /\ cov.matrix[1] = 1 /\ cov.matrix[NumChannels] = 1
    /\ cov.matrix[NumChannels + 1] = 2

\* C20: every entry point that takes a class or field number detects a
\* number past the last class or field at entry: it returns its not-done
\* value, reads and writes no class or field record and leaves its output
\* buffers as they were.
C20_OutOfRangeDetectedAtEntry ==
    (call.op # "none" /\ call.outOfRange) =>
        /\ ~call.fault
        /\ call.notDone
        /\ ~call.recordRead
        /\ gProjectInfoPtr = call.before
        /\ call.stats = ComputedChannelStats
        /\ call.matrix = CallerMatrix

\* C21: after UpdateProjectMaskStats returned 1 for an update code,
\* CheckIfMaskStatsUpToDate with the same code and the same class and field
\* numbers returns TRUE, with per-field and with class-only storage.
C21_MaskStatsUpToDateAfterUpdate ==
    (call.op = "UpdateProjectMaskStats" /\ call.ret = 1) =>
        CheckIfMaskStatsUpToDate(gProjectInfoPtr, call.request.code,
                                 call.request.classNumber, call.request.fieldNumber)

\* C22: when SetupStatsMemory returns FALSE, UpdateStatsControl runs none of
\* the clearing, scanning and finishing steps: the project (flags, pixel
\* counts, statistics memory) is as on entry and the code returned is not 1.
C22_SetupFailureLeavesProject ==
    (call.op = "UpdateStatsControl" /\ ~call.run.setup) =>
        /\ gProjectInfoPtr = call.before
        /\ call.ret # 1

C22_Witness ==
    /\ call.op = "UpdateStatsControl"
    /\ ~call.run.setup
    /\ \E run \in Runs(call.before, Fields) :
           /\ run.setup
           /\ UpdateStatsControl(call.before, call.mode, call.arg, call.arg, run).p
                  # call.before

\* The steps of the conditioning (CheckMatrix) and where they start in the
\* recorded steps of a call.
ConditioningSteps == {"ResetZeroVariances", "ResetForAllVariancesEqual"}

ConditioningStart ==
    IF \E i \in DOMAIN cov.steps : cov.steps[i] \in ConditioningSteps
    THEN CHOOSE i \in DOMAIN cov.steps :
             /\ cov.steps[i] \in ConditioningSteps
             /\ \A j \in 1 .. (i - 1) : cov.steps[j] \notin ConditioningSteps
    ELSE Len(cov.steps) + 1

TransformedCall ==
    cov.op \in {"GetTransformedClassCovarianceMatrix",
                "GetTransformedClassCovarianceMatrix, transformed"}

\* C23: GetTransformedClassCovarianceMatrix runs its inner
\* GetClassCovarianceMatrix call without the zero variance substitution, has
\* setZeroVarianceFlag on return as it was on entry, and conditions the
\* matrix (zero variances, then all entries equal) only after the
\* transformation.
C23_ConditioningAfterTransformation ==
    TransformedCall =>
        LET estimate == SubSeq(cov.steps, 1, ConditioningStart - 1)
            conditioning == SubSeq(cov.steps, ConditioningStart, Len(cov.steps))
        IN /\ gProjectInfoPtr.setZeroVarianceFlag = cov.before.setZeroVarianceFlag
           /\ cov.op = "GetTransformedClassCovarianceMatrix, transformed" =>
                  /\ estimate # <<>>
                  /\ estimate[Len(estimate)] = "TransformSymmetricMatrix"
           /\ IF cov.before.setZeroVarianceFlag
              THEN conditioning \in
                      {<<"ResetZeroVariances">>,
                       <<"ResetZeroVariances", "ResetForAllVariancesEqual">>,
                       <<"ResetZeroVariances", "ResetForAllVariancesEqual",
                         "CopyLowerToUpperSquareMatrix">>}
              ELSE conditioning \in
                      {<<"ResetForAllVariancesEqual">>,
                       <<"ResetForAllVariancesEqual", "CopyLowerToUpperSquareMatrix">>}

C23_Witness ==
    /\ cov.op = "GetTransformedClassCovarianceMatrix, transformed"
    /\ cov.before.setZeroVarianceFlag
    /\ cov.before.classNamesPtr[0].template = "zeroVariance"
    /\ cov.before.classNamesPtr[0].numberOfTrainFields > 0
    /\ cov.outputStatisticsCode = kMeanCovariance
    /\ cov.numberOutputChannels > 0
    /\ "ComputeCovarianceMatrix" \in {cov.steps[i] : i \in DOMAIN cov.steps}
    /\ cov.steps[Len(cov.steps)] = "ResetForAllVariancesEqual"

\* C24: SetProjectCovarianceStatsToUse called with kMixedStats leaves the
\* covarianceStatsToUse of every class as it was before the call.
C24_MixedRequestKeepsClassSettings ==
    [][(call'.op = "SetProjectCovarianceStatsToUse" /\ call'.arg = kMixedStats) =>
           \A c \in Classes :
               gProjectInfoPtr'.classNamesPtr[c].covarianceStatsToUse
                   = gProjectInfoPtr.classNamesPtr[c].covarianceStatsToUse]_vars

\* C25: after UpdateStatsControl in project mode returned 1, the project and
\* every class with a training field have statsUpToDate set; a class that
\* was up to date before the update still is.
C25_ProjectUpdateMarksClasses ==
    (call.op = "UpdateStatsControl" /\ call.mode = kUpdateProject /\ call.ret = 1) =>
        /\ gProjectInfoPtr.statsUpToDate
        /\ \A c \in Classes :
               gProjectInfoPtr.classNamesPtr[c].numberOfTrainFields > 0
                   => gProjectInfoPtr.classNamesPtr[c].statsUpToDate

\* The mask training fields UpdateProjectMaskStats marked in its last call.
NewlyMarked ==
    {f \in Fields :
        /\ gProjectInfoPtr.fieldIdentPtr[f].fieldType = kTrainingType
        /\ gProjectInfoPtr.fieldIdentPtr[f].pointType = kMaskType
        /\ \/ /\ gProjectInfoPtr.fieldIdentPtr[f].loadedIntoClassStats
              /\ ~call.before.fieldIdentPtr[f].loadedIntoClassStats
           \/ /\ gProjectInfoPtr.fieldIdentPtr[f].statsUpToDate
              /\ ~call.before.fieldIdentPtr[f].statsUpToDate}

\* C26: UpdateProjectMaskStats marks a mask training field as loaded (and up
\* to date) only if the scan of this call accumulated its pixels
\* (usePixelFlag); a field-mode update of field f marks no other field.
C26_MarksOnlyScannedFields ==
    call.op = "UpdateProjectMaskStats" =>
        \A f \in NewlyMarked :
            /\ usePixelFlag(call.before, call.request.code, call.request.classNumber,
                            call.request.fieldNumber, f)
            /\ call.request.code = kUpdateField => f = call.request.fieldNumber

MaskTrainingFields ==
    {f \in Fields :
        /\ gProjectInfoPtr.fieldIdentPtr[f].fieldType = kTrainingType
        /\ gProjectInfoPtr.fieldIdentPtr[f].pointType = kMaskType}

\* The pixels of field f held in the accumulator the mask scan adds them to.
AccumulatedPixels(f) ==
    IF gProjectInfoPtr.keepClassStatsOnlyFlag
    THEN gProjectInfoPtr.classChanStatsPtr[gProjectInfoPtr.fieldIdentPtr[f].classStorage][f]
    ELSE gProjectInfoPtr.fieldChanStatsPtr
             [gProjectInfoPtr.fieldIdentPtr[f].trainingStatsNumber][f]

\* C27: when the mask scan of the first update of a project was canceled or
\* failed partway and the next update, of the project, ran to completion,
\* every mask field has the pixel count and the sums of one uninterrupted
\* scan: no pixel is counted twice.
C27_ResumedScanCountsOnce ==
    (/\ call.op = "UpdateStatsControl"
     /\ call.n = 2
     /\ call.interrupted
     /\ call.mode = kUpdateProject
     /\ call.ret = 1) =>
        \A f \in MaskTrainingFields :
            /\ gProjectInfoPtr.fieldIdentPtr[f].numberPixelsUsedForStats = FieldPixels(f)
            /\ AccumulatedPixels(f) = FieldPixels(f)

\* The training fields of class c that GetClassChannelStatistics merges, and
\* those counted in the class's numberStatisticsPixels.
MergedFields(c) ==
    {f \in FieldsOfClass(gProjectInfoPtr, c) :
        CombineFieldTest(gProjectInfoPtr.fieldIdentPtr[f])}

CountedFields(c) ==
    {f \in FieldsOfClass(gProjectInfoPtr, c) :
        /\ gProjectInfoPtr.fieldIdentPtr[f].fieldType = kTrainingType
        /\ gProjectInfoPtr.fieldIdentPtr[f].loadedIntoClassStats}

\* C28: with per-field storage, after any sequence of updates the fields
\* whose sums are merged for a class are the fields counted in its
\* numberStatisticsPixels, so the class mean divides the merged sum by the
\* pixel count of the merged fields.
C28_MergedFieldsAreCountedFields ==
    (call.op = "UpdateStatsControl" /\ ~gProjectInfoPtr.keepClassStatsOnlyFlag) =>
        \A c \in Classes : MergedFields(c) = CountedFields(c)

\* C29: called with a channel list (fewer output than input channels),
\* ComputeCorrelationFromCovMatrix divides the entry of the output pair (a, b),
\* b <= a, by stdDev[L[a]] * stdDev[L[b]], sets it to 0 exactly when one of
\* the two is not positive, and reads no other standard deviation for it.
C29_CorrelationUsesListedStdDevs ==
    (/\ cov.op = "ComputeCorrelationFromCovMatrix"
     /\ cov.numberOutputChannels > 0
     /\ cov.numberOutputChannels < cov.numberInputChannels) =>
        \A a \in 0 .. (cov.numberOutputChannels - 1) : \A b \in 0 .. a :
            LET stdDevA == cov.stdDev[cov.list[a]]
                stdDevB == cov.stdDev[cov.list[b]]
                entry == cov.matrix[CorrelationOffset(a, b, cov.numberOutputChannels,
                                                      cov.squareOutputMatrixFlag)]
            IN /\ entry = IF stdDevA > 0 /\ stdDevB > 0
                              THEN CovarianceValue \div (stdDevA * stdDevB) ELSE 0
               /\ stdDevA > 0 =>
                      StdDevIndex2(cov.stdDev, cov.list, TRUE, b) = cov.list[b]

\* Whether channel statistics are the stored enhanced statistics, or are
\* derived from the original sums of the class.
StatsAreEnhanced(stats) ==
    \A channel \in Channels : stats[channel].sum = EnhancedChannelStats[channel].sum

StatsFromOriginalSums(stats) ==
    \A channel \in Channels : stats[channel].sum = ClassSumStats[channel].sum

\* C30: the mean vector and the covariance matrix one GetClassCovarianceMatrix
\* call returns come from the same statistics set: both enhanced when the
\* argument is kEnhancedStats and the class has modified statistics, whatever
\* the setting stored on the class; otherwise both from the original sums.
C30_MeanAndCovarianceFromSameSet ==
    LET classNames == cov.before.classNamesPtr[storageClass(cov.statClassNumber)] IN
    (/\ cov.op = "GetClassCovarianceMatrix"
     /\ cov.steps # <<>>
     /\ classNames.numberOfTrainFields > 0
     /\ ~(cov.before.keepClassStatsOnlyFlag /\ classNames.numberStatisticsPixels <= 0)) =>
        IF cov.covarianceStatsToUse = kEnhancedStats /\ classNames.modifiedStatsFlag
            THEN cov.steps[1] = "GetClassChannelStatistics" /\ StatsAreEnhanced(cov.stats)
            ELSE cov.steps[1] = "GetClassSumsSquares" /\ StatsFromOriginalSums(cov.stats)

====
